---- MODULE Spec2Model ----
(***************************************************************************)
(* Model of the schema-driven save/delete engine (src/src/save.ts,         *)
(* src/src/schemas.ts), of the SQLite store it writes (the DDL of          *)
(* openDb) and of the change-target computation (src/src/etl.ts).          *)
(*                                                                         *)
(* Encoding of values.  A JavaScript string is a sequence of tokens in     *)
(* which every "." is a token of its own: "Room" is <<"Room">>,            *)
(* "Room.rename" is <<"Room", ".", "rename">>, "" is <<>>.  split(".")     *)
(* and join(".") are computed on that sequence.  Numbers are integers.     *)
(* SQL NULL (and a bound JavaScript undefined) is NULLT in a TEXT column   *)
(* and NULLI in an INTEGER column; surrogate ids start at 1.               *)
(***************************************************************************)
EXTENDS Integers, Sequences, FiniteSets, TLC

VARIABLES
    db,         \* the store: [tables, seq]
    last,       \* the last operation: [op, schema, obj, ok, id, err]
    scanOrder,  \* which of several matching rows an unordered SELECT .get() returns
    scenario,   \* which family of commands the callers issue
    site        \* the site server: its diagram cache, the database file, the calls in flight

vars == <<db, last, scanOrder, scenario, site>>

\* site.ts module state after load: no cached diagrams, cachedMtime 0, and no
\* getDiagrams call in flight. The database file exists with contents 0,
\* mtime 1, and no reload has been broadcast yet.
NoDiagrams == [version |-> -1, readAt |-> -1]

Calls == {1, 2}

IdleCall == [pc |-> "idle", startedAt |-> 0, mtime |-> 0, read |-> NoDiagrams, result |-> NoDiagrams]

SiteLoaded == [cachedDiagrams |-> NoDiagrams, cachedMtime |-> 0, version |-> 0, mtimeMs |-> 1, reloads |-> 0, calls |-> [c \in Calls |-> IdleCall]]

\* Bounds of the model: no table ever receives more than MaxId inserted rows,
\* and no check is given an ordinal above MaxSeqVal.
MaxId == 2
MaxSeqVal == 3

NULLT == <<"<null>">>
NULLI == 0

Empty == <<>>

Range(f) == {f[k] : k \in DOMAIN f}

\* { ...a, ...b } : b's entries override a's
Assign(a, b) == b @@ a

\* delete obj[k] for every k in ks
Without(f, ks) == [k \in (DOMAIN f) \ ks |-> f[k]]

(***************************************************************************)
(* The storage unit: tables, constraints and cascades of the DDL.          *)
(***************************************************************************)
DDL ==
  [ entities |->
      [ cols |-> {"id", "name"}, text |-> {"name"}, notnull |-> {"name"},
        dflt |-> Empty, unique |-> {{"name"}}, refs |-> {} ],
    fields |->
      [ cols |-> {"id", "entity_id", "name", "type"}, text |-> {"name", "type"},
        notnull |-> {"entity_id", "name", "type"},
        dflt |-> [type |-> <<"string">>],
        unique |-> {{"entity_id", "name"}},
        refs |-> {[col |-> "entity_id", table |-> "entities", act |-> "CASCADE"]} ],
    relations |->
      [ cols |-> {"id", "from_entity_id", "to_entity_id", "label", "cardinality"},
        text |-> {"label", "cardinality"},
        notnull |-> {"from_entity_id", "to_entity_id", "label", "cardinality"},
        dflt |-> [label |-> <<>>, cardinality |-> <<"*">>],
        unique |-> {{"from_entity_id", "to_entity_id", "label"}},
        refs |-> {[col |-> "from_entity_id", table |-> "entities", act |-> "CASCADE"],
                  [col |-> "to_entity_id", table |-> "entities", act |-> "CASCADE"]} ],
    stories |->
      [ cols |-> {"id", "actor", "action", "description"},
        text |-> {"actor", "action", "description"},
        notnull |-> {"actor", "action", "description"},
        dflt |-> [description |-> <<>>], unique |-> {}, refs |-> {} ],
    documents |->
      [ cols |-> {"id", "name", "entity_id", "collection", "public", "fetch", "description"},
        text |-> {"name", "fetch", "description"},
        notnull |-> {"name", "entity_id", "collection", "public", "fetch", "description"},
        dflt |-> [collection |-> 0, public |-> 0, fetch |-> <<"select">>, description |-> <<>>],
        unique |-> {{"name"}},
        refs |-> {[col |-> "entity_id", table |-> "entities", act |-> "CASCADE"]} ],
    expansions |->
      [ cols |-> {"id", "document_id", "parent_expansion_id", "name", "entity_id",
                  "foreign_key", "belongs_to", "shallow"},
        text |-> {"name", "foreign_key"},
        notnull |-> {"document_id", "name", "entity_id", "foreign_key", "belongs_to", "shallow"},
        dflt |-> [belongs_to |-> 0, shallow |-> 0], unique |-> {},
        refs |-> {[col |-> "document_id", table |-> "documents", act |-> "CASCADE"],
                  [col |-> "parent_expansion_id", table |-> "expansions", act |-> "CASCADE"],
                  [col |-> "entity_id", table |-> "entities", act |-> "CASCADE"]} ],
    methods |->
      [ cols |-> {"id", "entity_id", "name", "args", "return_type", "auth_required"},
        text |-> {"name", "args", "return_type"},
        notnull |-> {"entity_id", "name", "args", "return_type", "auth_required"},
        dflt |-> [args |-> <<"[]">>, return_type |-> <<"boolean">>, auth_required |-> 1],
        unique |-> {{"entity_id", "name"}},
        refs |-> {[col |-> "entity_id", table |-> "entities", act |-> "CASCADE"]} ],
    publishes |->
      [ cols |-> {"id", "method_id", "property"}, text |-> {"property"},
        notnull |-> {"method_id", "property"}, dflt |-> Empty, unique |-> {},
        refs |-> {[col |-> "method_id", table |-> "methods", act |-> "CASCADE"]} ],
    notifications |->
      [ cols |-> {"id", "method_id", "channel", "payload", "recipients"},
        text |-> {"channel", "payload", "recipients"},
        notnull |-> {"method_id", "channel", "payload", "recipients"},
        dflt |-> [payload |-> <<"{}">>], unique |-> {},
        refs |-> {[col |-> "method_id", table |-> "methods", act |-> "CASCADE"]} ],
    method_permissions |->
      [ cols |-> {"id", "method_id", "path", "description"},
        text |-> {"path", "description"},
        notnull |-> {"method_id", "path", "description"},
        dflt |-> [description |-> <<>>], unique |-> {},
        refs |-> {[col |-> "method_id", table |-> "methods", act |-> "CASCADE"]} ],
    story_links |->
      [ cols |-> {"id", "story_id", "target_type", "target_id"}, text |-> {"target_type"},
        notnull |-> {"story_id", "target_type", "target_id"}, dflt |-> Empty,
        unique |-> {{"story_id", "target_type", "target_id"}},
        refs |-> {[col |-> "story_id", table |-> "stories", act |-> "CASCADE"]} ],
    checklists |->
      [ cols |-> {"id", "name", "description"}, text |-> {"name", "description"},
        notnull |-> {"name", "description"}, dflt |-> [description |-> <<>>],
        unique |-> {{"name"}}, refs |-> {} ],
    checks |->
      [ cols |-> {"id", "checklist_id", "actor", "method_id", "action", "description",
                  "confirmed", "seq"},
        text |-> {"actor", "action", "description"},
        notnull |-> {"checklist_id", "actor", "action", "description", "confirmed", "seq"},
        dflt |-> [action |-> <<"can">>, description |-> <<>>, confirmed |-> 0, seq |-> 0],
        unique |-> {},
        refs |-> {[col |-> "checklist_id", table |-> "checklists", act |-> "CASCADE"],
                  [col |-> "method_id", table |-> "methods", act |-> "SETNULL"]} ],
    check_deps |->
      [ cols |-> {"id", "check_id", "depends_on_id"}, text |-> {},
        notnull |-> {"check_id", "depends_on_id"}, dflt |-> Empty,
        unique |-> {{"check_id", "depends_on_id"}},
        refs |-> {[col |-> "check_id", table |-> "checks", act |-> "CASCADE"],
                  [col |-> "depends_on_id", table |-> "checks", act |-> "CASCADE"]} ],
    metadata |->
      [ cols |-> {"key", "value"}, text |-> {"key", "value"},
        notnull |-> {"value"}, dflt |-> Empty, unique |-> {{"key"}}, refs |-> {} ] ]

TableNames == DOMAIN DDL

\* "Foreign keys are enforced via PRAGMA foreign_keys = ON on every connection."
ForeignKeysOn == TRUE

\* In the operators below T is the definition DDL[t] of the table t.
NullOfIn(T, c) == IF c \in T.text THEN NULLT ELSE NULLI

NullOf(t, c) == NullOfIn(DDL[t], c)

\* INTEGER columns with a DEFAULT hold flags and ordinals, where 0 is a value;
\* the other INTEGER columns hold row ids, which start at 1, and NULLI is NULL
IsNullIn(T, c, v) ==
    IF c \in T.text THEN v = NULLT
    ELSE IF c \in DOMAIN T.dflt THEN FALSE
    ELSE v = NULLI

IsNull(t, c, v) == IsNullIn(DDL[t], c, v)

EmptyDb == [tables |-> [t \in TableNames |-> {}], seq |-> [t \in TableNames |-> 0]]

Min(S) == CHOOSE x \in S : \A y \in S : x <= y
Max(S) == CHOOSE x \in S : \A y \in S : x >= y

\* WHERE c1 = ? AND c2 = ? ... : a comparison with NULL is never true
MatchesIn(rows, T, where) ==
    {r \in rows : \A c \in DOMAIN where : ~IsNullIn(T, c, where[c]) /\ r[c] = where[c]}

Matches(d, t, where) == MatchesIn(d.tables[t], DDL[t], where)

\* the row a statement's .get() returns when several rows match and the
\* query has no ORDER BY: the first in the order of the scan SQLite chooses
FirstRow(rows) ==
    IF scanOrder = "asc"
    THEN CHOOSE r \in rows : \A q \in rows : r.id <= q.id
    ELSE CHOOSE r \in rows : \A q \in rows : r.id >= q.id

\* db.query("SELECT id FROM t WHERE ...").get(...) : [found, id]
FirstId(rows) ==
    IF rows = {} THEN [found |-> FALSE, id |-> 0]
    ELSE [found |-> TRUE, id |-> FirstRow(rows).id]

GetId(d, t, where) == FirstId(Matches(d, t, where))

RowById(d, t, id) == CHOOSE r \in d.tables[t] : r.id = id

\* the constraints of a table without its NOT NULL columns
RowViolatesNullable(d, t, T, row, others) ==
    \/ \E u \in T.unique :
          /\ \A c \in u : ~IsNullIn(T, c, row[c])
          /\ \E o \in others : \A c \in u : o[c] = row[c]
    \/ /\ ForeignKeysOn
       /\ \E f \in T.refs :
             /\ ~IsNullIn(T, f.col, row[f.col])
             /\ ~\E p \in (IF f.table = t THEN others \cup {row} ELSE d.tables[f.table]) :
                    p.id = row[f.col]

\* the constraints SQLite checks on a new or updated row
RowViolates(d, t, T, row, others) ==
    \/ \E c \in T.notnull : IsNullIn(T, c, row[c])
    \/ \E u \in T.unique :
          /\ \A c \in u : ~IsNullIn(T, c, row[c])
          /\ \E o \in others : \A c \in u : o[c] = row[c]
    \/ /\ ForeignKeysOn
       /\ \E f \in T.refs :
             /\ ~IsNullIn(T, f.col, row[f.col])
             /\ ~\E p \in (IF f.table = t THEN others \cup {row} ELSE d.tables[f.table]) :
                    p.id = row[f.col]

Ok(d, id) == [ok |-> TRUE, db |-> d, id |-> id, err |-> "none"]
Fail(d, e) == [ok |-> FALSE, db |-> d, id |-> 0, err |-> e]

\* db.run("INSERT INTO t (cols) VALUES (...)") on an AUTOINCREMENT table
\* the row an INSERT builds: the next id, the values given, the DEFAULTs, NULL
NewRow(T, id, vals) ==
    [c \in T.cols |->
        IF c = "id" THEN id
        ELSE IF c \in DOMAIN vals THEN vals[c]
        ELSE IF c \in DOMAIN T.dflt THEN T.dflt[c]
        ELSE NullOfIn(T, c)]

InsertRow(d, t, T, row) ==
    IF RowViolates(d, t, T, row, d.tables[t]) THEN Fail(d, "Constraint")
    ELSE IF row.id > MaxId THEN Fail(d, "BOUND")
    ELSE Ok([tables |-> [d.tables EXCEPT ![t] = @ \cup {row}],
             seq |-> [d.seq EXCEPT ![t] = row.id]], row.id)

InsertInto(d, t, T, vals) ==
    IF ~(DOMAIN vals \subseteq T.cols) THEN Fail(d, "SqlError")
    ELSE InsertRow(d, t, T, NewRow(T, d.seq[t] + 1, vals))

Insert(d, t, vals) == InsertInto(d, t, DDL[t], vals)

\* db.run("UPDATE t SET c = ?, ... WHERE id = ?")
UpdatedRow(T, old, vals) ==
    [c \in T.cols |-> IF c \in DOMAIN vals THEN vals[c] ELSE old[c]]

UpdateRow(d, t, T, old, row) ==
    IF RowViolates(d, t, T, row, d.tables[t] \ {old}) THEN Fail(d, "Constraint")
    ELSE Ok([d EXCEPT !.tables[t] = (@ \ {old}) \cup {row}], old.id)

UpdateIn(d, t, T, vals, old) ==
    IF ~(DOMAIN vals \subseteq T.cols) THEN Fail(d, "SqlError")
    ELSE UpdateRow(d, t, T, old, UpdatedRow(T, old, vals))

Update(d, t, id, vals) == UpdateIn(d, t, DDL[t], vals, RowById(d, t, id))

\* every <<table, column, action>> whose REFERENCES clause names table t
RefsTo(t) ==
    UNION {{<<u, f.col, f.act>> : f \in {g \in DDL[u].refs : g.table = t}} : u \in TableNames}

RECURSIVE SetToSeq(_)
SetToSeq(S) == IF S = {} THEN <<>>
               ELSE LET x == CHOOSE y \in S : TRUE IN <<x>> \o SetToSeq(S \ {x})

\* DELETE of the rows `ids` of table t, with the ON DELETE actions of the DDL
RECURSIVE DeleteRows(_, _, _), Cascade(_, _, _), OnDelete(_, _, _, _, _)

\* the ON DELETE action of column col of table u on its rows `hit`
OnDelete(d, u, col, act, hit) ==
    IF hit = {} THEN d
    ELSE IF act = "CASCADE" THEN DeleteRows(d, u, {x.id : x \in hit})
    ELSE [d EXCEPT !.tables[u] =
            {IF x \in hit THEN [x EXCEPT ![col] = NullOf(u, col)] ELSE x : x \in @}]

Cascade(d, refs, ids) ==
    IF refs = <<>> THEN d
    ELSE Cascade(OnDelete(d, Head(refs)[1], Head(refs)[2], Head(refs)[3],
                          {x \in d.tables[Head(refs)[1]] : x[Head(refs)[2]] \in ids}),
                 Tail(refs), ids)

DeleteRows(d, t, ids) ==
    IF ids = {} \/ ~ForeignKeysOn
    THEN [d EXCEPT !.tables[t] = {x \in @ : x.id \notin ids}]
    ELSE Cascade([d EXCEPT !.tables[t] = {x \in @ : x.id \notin ids}],
                 SetToSeq(RefsTo(t)), ids)

\* db.run("DELETE FROM t WHERE ...") : rows are the rows the WHERE clause matches;
\* rows with an id may be referenced from other tables (metadata rows have none)
DeleteMatched(d, t, rows) ==
    IF \A r \in rows : "id" \in DOMAIN r THEN DeleteRows(d, t, {r.id : r \in rows})
    ELSE [d EXCEPT !.tables[t] = @ \ rows]

DeleteWhere(d, t, where) == DeleteMatched(d, t, Matches(d, t, where))

(***************************************************************************)
(* The schema registry.                                                    *)
(***************************************************************************)
SimpleFk(table, lookupColumn) ==
    [type |-> "simple", table |-> table, lookupColumn |-> lookupColumn]

\* resolve "Entity.method": the entity by name, then the method within it
MethodFk ==
    [type |-> "compound", parentTable |-> "entities", parentLookupColumn |-> "name",
     parentIdColumn |-> "entity_id", table |-> "methods", lookupColumn |-> "name"]

Fk(field, column, resolve) == [field |-> field, column |-> column, resolve |-> resolve]

Child(key, schema, parentFkColumn, shorthandField) ==
    [key |-> key, schema |-> schema, parentFkColumn |-> parentFkColumn,
     shorthandField |-> shorthandField]

SCHEMAS ==
  [ entity |->
      [ table |-> "entities", naturalKey |-> <<"name">>, columns |-> [name |-> "name"],
        fks |-> <<>>,
        children |-> << Child("fields", "field", "entity_id", ""),
                        Child("methods", "method", "entity_id", "") >>,
        defaults |-> Empty, booleans |-> {} ],
    field |->
      [ table |-> "fields", naturalKey |-> <<"entity", "name">>,
        columns |-> [name |-> "name", type |-> "type"],
        fks |-> << Fk("entity", "entity_id", SimpleFk("entities", "name")) >>,
        children |-> <<>>,
        defaults |-> [type |-> <<"string">>], booleans |-> {} ],
    relation |->
      [ table |-> "relations", naturalKey |-> <<"from", "to", "label">>,
        columns |-> [label |-> "label", cardinality |-> "cardinality"],
        fks |-> << Fk("from", "from_entity_id", SimpleFk("entities", "name")),
                   Fk("to", "to_entity_id", SimpleFk("entities", "name")) >>,
        children |-> <<>>,
        defaults |-> [label |-> <<>>, cardinality |-> <<"*">>], booleans |-> {} ],
    story |->
      [ table |-> "stories", naturalKey |-> <<"actor", "action">>,
        columns |-> [actor |-> "actor", action |-> "action", description |-> "description"],
        fks |-> <<>>,
        children |-> << Child("links", "_story_link", "story_id", "") >>,
        defaults |-> [description |-> <<>>], booleans |-> {} ],
    document |->
      [ table |-> "documents", naturalKey |-> <<"name">>,
        columns |-> [name |-> "name", collection |-> "collection", public |-> "public",
                     fetch |-> "fetch", description |-> "description"],
        fks |-> << Fk("entity", "entity_id", SimpleFk("entities", "name")) >>,
        children |-> << Child("expansions", "expansion", "document_id", "") >>,
        defaults |-> [collection |-> FALSE, public |-> FALSE, fetch |-> <<"select">>,
                      description |-> <<>>],
        booleans |-> {"collection", "public"} ],
    expansion |->
      [ table |-> "expansions", naturalKey |-> <<"document", "name">>,
        columns |-> [name |-> "name", foreign_key |-> "foreign_key",
                     belongs_to |-> "belongs_to", shallow |-> "shallow"],
        fks |-> << Fk("document", "document_id", SimpleFk("documents", "name")),
                   Fk("entity", "entity_id", SimpleFk("entities", "name")) >>,
        children |-> << Child("expansions", "expansion", "parent_expansion_id", "") >>,
        defaults |-> [belongs_to |-> FALSE, shallow |-> FALSE],
        booleans |-> {"belongs_to", "shallow"} ],
    method |->
      [ table |-> "methods", naturalKey |-> <<"entity", "name">>,
        columns |-> [name |-> "name", args |-> "args", return_type |-> "return_type",
                     auth_required |-> "auth_required"],
        fks |-> << Fk("entity", "entity_id", SimpleFk("entities", "name")) >>,
        children |-> << Child("publishes", "publish", "method_id", "property"),
                        Child("permissions", "permission", "method_id", "path"),
                        Child("notifications", "notification", "method_id", "") >>,
        defaults |-> [args |-> <<"[]">>, return_type |-> <<"boolean">>, auth_required |-> TRUE],
        booleans |-> {"auth_required"} ],
    publish |->
      [ table |-> "publishes", naturalKey |-> <<"method", "property">>,
        columns |-> [property |-> "property"],
        fks |-> << Fk("method", "method_id", MethodFk) >>,
        children |-> <<>>, defaults |-> Empty, booleans |-> {} ],
    notification |->
      [ table |-> "notifications", naturalKey |-> <<"method", "channel">>,
        columns |-> [channel |-> "channel", payload |-> "payload", recipients |-> "recipients"],
        fks |-> << Fk("method", "method_id", MethodFk) >>,
        children |-> <<>>, defaults |-> [payload |-> <<"{}">>], booleans |-> {} ],
    permission |->
      [ table |-> "method_permissions", naturalKey |-> <<"method", "path">>,
        columns |-> [path |-> "path", description |-> "description"],
        fks |-> << Fk("method", "method_id", MethodFk) >>,
        children |-> <<>>, defaults |-> [description |-> <<>>], booleans |-> {} ],
    checklist |->
      [ table |-> "checklists", naturalKey |-> <<"name">>,
        columns |-> [name |-> "name", description |-> "description"],
        fks |-> <<>>,
        children |-> << Child("checks", "check", "checklist_id", "") >>,
        defaults |-> [description |-> <<>>], booleans |-> {} ],
    check |->
      [ table |-> "checks", naturalKey |-> <<"checklist", "actor", "method">>,
        columns |-> [actor |-> "actor", action |-> "action", description |-> "description",
                     confirmed |-> "confirmed", seq |-> "seq"],
        fks |-> << Fk("checklist", "checklist_id", SimpleFk("checklists", "name")),
                   Fk("method", "method_id", MethodFk) >>,
        children |-> << Child("depends_on", "_check_dep", "check_id", "") >>,
        defaults |-> [action |-> <<"can">>, description |-> <<>>, confirmed |-> 0, seq |-> 0],
        booleans |-> {} ],
    metadata |->
      [ table |-> "metadata", naturalKey |-> <<"key">>,
        columns |-> [key |-> "key", value |-> "value"],
        fks |-> <<>>, children |-> <<>>, defaults |-> Empty, booleans |-> {} ],
    _story_link |->
      [ table |-> "story_links", naturalKey |-> <<"_parent_id", "type", "name">>,
        columns |-> [target_type |-> "target_type"],
        fks |-> <<>>, children |-> <<>>, defaults |-> Empty, booleans |-> {} ],
    _check_dep |->
      [ table |-> "check_deps", naturalKey |-> <<"_parent_id", "depends_on_id">>,
        columns |-> Empty,
        fks |-> <<>>, children |-> <<>>, defaults |-> Empty, booleans |-> {} ] ]

SchemaNames == DOMAIN SCHEMAS

\* names that every JavaScript object inherits from Object.prototype: for
\* these SCHEMAS[name] is a function or an object, not undefined
ObjectPrototype == {"constructor", "toString", "hasOwnProperty"}

\* SCHEMAS[schemaName] is truthy
Registered(schemaName) == schemaName \in SchemaNames \cup ObjectPrototype

(***************************************************************************)
(* Foreign-key resolution.                                                 *)
(***************************************************************************)
\* value.split(".")
RECURSIVE Split(_)
Split(s) ==
    IF s = <<>> THEN << <<>> >>
    ELSE LET rest == Split(Tail(s))
         IN  IF Head(s) = "." THEN << <<>> >> \o rest
             ELSE << <<Head(s)>> \o Head(rest) >> \o Tail(rest)

\* parts.join(".")
RECURSIVE Join(_)
Join(parts) ==
    IF parts = <<>> THEN <<>>
    ELSE IF Len(parts) = 1 THEN parts[1]
    ELSE parts[1] \o <<".">> \o Join(Tail(parts))

Found(id) == [ok |-> TRUE, id |-> id, err |-> "none"]
Thrown(e) == [ok |-> FALSE, id |-> 0, err |-> e]

\* if (!row) throw new Error("... not found"); return row.id
Lookup(row) == IF ~row.found THEN Thrown("NotFound") ELSE Found(row.id)

\* a lookup that takes a row of the table whatever the value is
ResolveAnyRow(d, rule, value) == Lookup(GetId(d, rule.resolve.table, Empty))

ResolveSimple(d, rule, value) ==
    Lookup(GetId(d, rule.resolve.table, (rule.resolve.lookupColumn :> value)))

\* the child named childName within the parent row just looked up
CompoundChild(d, r, childName, parentRow) ==
    IF ~parentRow.found THEN Thrown("NotFound")
    ELSE Lookup(GetId(d, r.table,
                      (r.parentIdColumn :> parentRow.id) @@ (r.lookupColumn :> childName)))

\* a resolution that reads the first two parts and ignores the rest
CompoundFirstTwo(d, r, parts) ==
    IF Len(parts) < 2 THEN Thrown("Malformed")
    ELSE CompoundChild(d, r, parts[2],
                       GetId(d, r.parentTable, (r.parentLookupColumn :> parts[1])))

\* parts is value.split(".")
CompoundParts(d, r, parts) ==
    IF Len(parts) # 2 THEN Thrown("Malformed")
    ELSE CompoundChild(d, r, parts[2],
                       GetId(d, r.parentTable, (r.parentLookupColumn :> parts[1])))

ResolveCompound(d, rule, value) == CompoundParts(d, rule.resolve, Split(value))

resolveFk(d, rule, value) ==
    IF rule.resolve.type = "simple" THEN ResolveSimple(d, rule, value)
    ELSE ResolveCompound(d, rule, value)

\* resolveTarget of save.ts: the target of a (polymorphic) story link
\* the method meth of the entity row just looked up
TargetMethod(d, meth, eRow) ==
    IF ~eRow.found THEN Thrown("NotFound")
    ELSE Lookup(GetId(d, "methods", ("entity_id" :> eRow.id) @@ ("name" :> meth)))

\* const [ent, meth] = name.split(".")
TargetDotted(d, parts) ==
    TargetMethod(d, parts[2], GetId(d, "entities", ("name" :> parts[1])))

resolveTarget(d, type, name) ==
    IF type = <<"entity">> THEN Lookup(GetId(d, "entities", ("name" :> name)))
    ELSE IF type = <<"document">> THEN Lookup(GetId(d, "documents", ("name" :> name)))
    ELSE IF type = <<"method">> THEN
        IF "." \in Range(name) THEN TargetDotted(d, Split(name))
        ELSE Lookup(GetId(d, "methods", ("name" :> name)))
    ELSE IF type = <<"notification">> THEN
        Lookup(GetId(d, "notifications", ("channel" :> name)))
    ELSE Thrown("UnknownTargetType")


(***************************************************************************)
(* save                                                                    *)
(*                                                                         *)
(* A record is a function from its keys to values.  A child array is a     *)
(* sequence of items, each [str |-> s] (a bare string) or [obj |-> o].     *)
(* parentId is NoParent and parentFkColumn is "" where the code has        *)
(* undefined.  Every operator returns [ok, db, id, err]; ok = FALSE is a   *)
(* thrown Error, and db is then the store at the point of the throw.       *)
(***************************************************************************)
NoParent == NULLI

Has(obj, k) == k \in DOMAIN obj

\* val ? 1 : 0
BoolToInt(v) == IF v = TRUE THEN 1 ELSE 0

\* the JSON key that maps to SQL column c
JsonKeyOf(schema, c) == CHOOSE k \in DOMAIN schema.columns : schema.columns[k] = c

\* 1. resolve the FKs present in the record: [ok, err, resolved]
\* the FK rules whose field the record gives
PresentFks(schema, obj) == {i \in DOMAIN schema.fks : Has(obj, schema.fks[i].field)}

\* res[i] is the outcome of resolveFk for rule i: the first failure is thrown
FksOutcome(schema, res) ==
    IF \E i \in DOMAIN res : ~res[i].ok
    THEN [ok |-> FALSE, err |-> res[Min({i \in DOMAIN res : ~res[i].ok})].err,
          resolved |-> Empty]
    ELSE [ok |-> TRUE, err |-> "none",
          resolved |-> [c \in {schema.fks[i].column : i \in DOMAIN res} |->
                          res[CHOOSE i \in DOMAIN res : schema.fks[i].column = c].id]]

ResolveFks(d, schema, obj) ==
    FksOutcome(schema, [i \in PresentFks(schema, obj) |->
                           resolveFk(d, schema.fks[i], obj[schema.fks[i].field])])

\* A JavaScript array of strings is the sequence of its elements after the
\* token ARRAY; every other sequence of tokens is a string.
ARRAY == "#array"

\* typeof val === "string"
IsString(v) == v = <<>> \/ Head(v) # ARRAY

\* the elements of an array as JSON text: "a","b"
RECURSIVE JsonElements(_)
JsonElements(es) ==
    IF es = <<>> THEN <<>>
    ELSE <<"\"", Head(es), "\"">>
            \o (IF Tail(es) = <<>> THEN <<>> ELSE <<",">> \o JsonElements(Tail(es)))

\* JSON.stringify(val) of an array of strings
JsonStringify(v) == <<"[">> \o JsonElements(Tail(v)) \o <<"]">>

\* the value bound to column c for the JSON field k
Coerced(schema, c, k, val) ==
    IF k \in schema.booleans THEN BoolToInt(val)
    ELSE IF c = "args" /\ ~IsString(val) THEN JsonStringify(val)
    ELSE val

\* 2. the scalar columns present in the record
ColValues(schema, obj) ==
    [c \in {schema.columns[k] : k \in (DOMAIN schema.columns) \cap (DOMAIN obj)} |->
        Coerced(schema, c, JsonKeyOf(schema, c), obj[JsonKeyOf(schema, c)])]

\* 4. the natural-key WHERE clause: column -> value
NkColumn(schema, nk, resolved, parentId, parentFkColumn) ==
    LET fkIdx == {i \in DOMAIN schema.fks : schema.fks[i].field = nk}
    IN  IF fkIdx # {} /\ schema.fks[Min(fkIdx)].column \in DOMAIN resolved
        THEN schema.fks[Min(fkIdx)].column
        ELSE IF nk = "_parent_id" /\ parentId # NoParent /\ parentFkColumn # ""
        THEN parentFkColumn
        ELSE IF nk \in DOMAIN schema.columns THEN schema.columns[nk]
        ELSE ""

NkValue(schema, nk, resolved, colValues, parentId, parentFkColumn) ==
    LET fkIdx == {i \in DOMAIN schema.fks : schema.fks[i].field = nk}
        col   == schema.columns[nk]
    IN  IF fkIdx # {} /\ schema.fks[Min(fkIdx)].column \in DOMAIN resolved
        THEN resolved[schema.fks[Min(fkIdx)].column]
        ELSE IF nk = "_parent_id" /\ parentId # NoParent /\ parentFkColumn # ""
        THEN parentId
        ELSE IF col \in DOMAIN colValues THEN colValues[col]
        ELSE IF nk \in DOMAIN schema.defaults THEN schema.defaults[nk]
        ELSE NullOf(schema.table, col)

\* a save that never looks for the existing row
NoKeyWhere(schema, resolved, colValues, parentId, parentFkColumn) == Empty

NaturalKeyWhere(schema, resolved, colValues, parentId, parentFkColumn) ==
    LET used == {i \in DOMAIN schema.naturalKey :
                    NkColumn(schema, schema.naturalKey[i], resolved, parentId, parentFkColumn) # ""}
    IN  [c \in {NkColumn(schema, schema.naturalKey[i], resolved, parentId, parentFkColumn) : i \in used} |->
            LET i == CHOOSE j \in used :
                        NkColumn(schema, schema.naturalKey[j], resolved, parentId, parentFkColumn) = c
            IN  NkValue(schema, schema.naturalKey[i], resolved, colValues, parentId, parentFkColumn)]

\* 6b. the defaults of the schema for the columns the record does not give
DefaultCols(schema, colValues) ==
    LET keys == {k \in DOMAIN schema.defaults :
                    k \in DOMAIN schema.columns /\ schema.columns[k] \notin DOMAIN colValues}
    IN  [c \in {schema.columns[k] : k \in keys} |->
            LET k == JsonKeyOf(schema, c)
            IN  IF k \in schema.booleans THEN BoolToInt(schema.defaults[k])
                ELSE schema.defaults[k]]

\* SELECT COALESCE(MAX(seq), 0) FROM checks WHERE checklist_id = ?
MaxSeq(d, checklistId) ==
    LET S == {r.seq : r \in Matches(d, "checks", ("checklist_id" :> checklistId))}
    IN  IF S = {} THEN 0 ELSE Max(S)

\* 5. auto-increment seq for checks
SeqAssigned(d, schemaName, obj, resolved, colValues) ==
    IF schemaName = "check" /\ ~Has(obj, "seq")
       /\ "checklist_id" \in DOMAIN resolved /\ resolved["checklist_id"] # 0
    THEN Assign(colValues, ("seq" :> MaxSeq(d, resolved["checklist_id"]) + 1))
    ELSE colValues

\* 5b. the 'denied' shorthand for checks
DeniedApplied(schemaName, obj, colValues) ==
    IF schemaName = "check" /\ Has(obj, "denied") /\ obj["denied"] = TRUE
    THEN Assign(colValues, ("action" :> <<"denied">>))
    ELSE colValues

\* 5c. metadata: INSERT OR REPLACE INTO metadata (key, value)
SaveMetadata(d, obj) ==
    IF ~Has(obj, "key") \/ obj["key"] = <<>> \/ ~Has(obj, "value") THEN Fail(d, "Metadata")
    ELSE Ok([d EXCEPT !.tables["metadata"] =
                {r \in @ : r.key # obj["key"]} \cup {[key |-> obj["key"], value |-> obj["value"]]}],
            0)

\* 6a. UPDATE: only the provided columns, never the natural key or the parent FK
UpdateCols(colValues, resolved, where, parentFkColumn) ==
    Without(Assign(colValues, resolved),
            (DOMAIN where) \cup (IF parentFkColumn # "" THEN {parentFkColumn} ELSE {}))

\* if (updateCols.length > 0) db.run("UPDATE ..."); rowId = existing.id
UpdateWith(d, schema, id, updateCols) ==
    IF DOMAIN updateCols # {} THEN Update(d, schema.table, id, updateCols)
    ELSE Ok(d, id)

UpdateExisting(d, schema, id, colValues, resolved, where, parentFkColumn) ==
    UpdateWith(d, schema, id, UpdateCols(colValues, resolved, where, parentFkColumn))

\* 6b. INSERT: defaults, then provided values, then resolved FKs, then the parent FK
InsertCols(schema, colValues, resolved, parentId, parentFkColumn) ==
    LET withFks == Assign(Assign(DefaultCols(schema, colValues), colValues), resolved)
    IN  IF parentId # NoParent /\ parentFkColumn # ""
        THEN Assign(withFks, (parentFkColumn :> parentId))
        ELSE withFks

InsertNew(d, schema, colValues, resolved, parentId, parentFkColumn) ==
    Insert(d, schema.table, InsertCols(schema, colValues, resolved, parentId, parentFkColumn))

\* story links
\* String(obj[k])
StringOf(obj, k) == IF Has(obj, k) THEN obj[k] ELSE <<"undefined">>

\* if (existing) return existing.id; otherwise INSERT the row
ExistingOrInsert(d, t, vals, existing) ==
    IF existing.found THEN Ok(d, existing.id) ELSE Insert(d, t, vals)

\* SELECT id FROM t WHERE (the columns of vals); INSERT when there is none
FindOrInsert(d, t, vals) == ExistingOrInsert(d, t, vals, GetId(d, t, vals))

\* tgt is the outcome of resolveTarget
LinkTarget(d, storyId, type, tgt) ==
    IF ~tgt.ok THEN Fail(d, tgt.err)
    ELSE FindOrInsert(d, "story_links",
                      ("story_id" :> storyId) @@ ("target_type" :> type)
                        @@ ("target_id" :> tgt.id))

doSaveStoryLink(d, obj, storyId) ==
    LinkTarget(d, storyId, StringOf(obj, "type"),
               resolveTarget(d, StringOf(obj, "type"), StringOf(obj, "name")))

\* check dependencies: the check of checklist cl, of the actor and the method
DepCheck(d, obj, method, cl) ==
    IF ~cl.found THEN Thrown("NotFound")
    ELSE Lookup(GetId(d, "checks",
                      ("checklist_id" :> cl.id) @@ ("actor" :> obj["actor"])
                        @@ ("method_id" :> method.id)))

\* method is the outcome of resolving "Entity.method"
DepChecklist(d, obj, method) ==
    IF ~method.ok THEN method
    ELSE DepCheck(d, obj, method, GetId(d, "checklists", ("name" :> obj["checklist"])))

CheckDepByKey(d, obj) == DepChecklist(d, obj, CompoundParts(d, MethodFk, Split(obj["method"])))

\* Number(obj.depends_on_id ?? obj.depends_on ?? obj.id ?? 0)
DepGiven(obj) ==
    IF Has(obj, "depends_on_id") THEN obj["depends_on_id"]
    ELSE IF Has(obj, "depends_on") THEN obj["depends_on"]
    ELSE IF Has(obj, "id") THEN obj["id"]
    ELSE 0

\* !depId && obj.checklist && obj.actor && obj.method
DepByKey(obj) ==
    /\ DepGiven(obj) = 0
    /\ Has(obj, "checklist") /\ Has(obj, "actor") /\ Has(obj, "method")
    /\ obj["checklist"] # <<>> /\ obj["actor"] # <<>> /\ obj["method"] # <<>>

\* dep is the outcome of finding the check depended on
DepLinked(d, checkId, dep) ==
    IF ~dep.ok THEN Fail(d, dep.err)
    ELSE IF dep.id = 0 THEN Fail(d, "NoDependency")
    ELSE FindOrInsert(d, "check_deps",
                      ("check_id" :> checkId) @@ ("depends_on_id" :> dep.id))

doSaveCheckDep(d, obj, checkId) ==
    DepLinked(d, checkId,
              IF DepByKey(obj) THEN CheckDepByKey(d, obj) ELSE Found(DepGiven(obj)))

\* shorthand expansion of a child item: [ok, obj]
expandShorthand(childDef, item) ==
    IF Has(item, "str") /\ childDef.shorthandField # ""
    THEN [ok |-> TRUE, obj |-> (childDef.shorthandField :> item.str)]
    ELSE IF Has(item, "str") THEN [ok |-> FALSE, obj |-> Empty]
    ELSE [ok |-> TRUE, obj |-> item.obj]

\* 3b. the "parent" field of an expansion: [ok, resolved]
\* const docId = resolved["document_id"] ?? parentId
ParentDoc(resolved, parentId) ==
    IF "document_id" \in DOMAIN resolved THEN resolved["document_id"] ELSE parentId

\* prow is the expansion of that name in the document, when there is one
ParentFound(resolved, prow) ==
    IF ~prow.found THEN [ok |-> FALSE, resolved |-> resolved]
    ELSE [ok |-> TRUE, resolved |-> Assign(resolved, ("parent_expansion_id" :> prow.id))]

ExpansionParent(d, schemaName, obj, resolved, parentId) ==
    IF /\ schemaName = "expansion" /\ Has(obj, "parent") /\ obj["parent"] # <<>>
       /\ ParentDoc(resolved, parentId) # 0
    THEN ParentFound(resolved,
                     GetId(d, "expansions",
                           ("document_id" :> ParentDoc(resolved, parentId))
                             @@ ("name" :> obj["parent"])))
    ELSE [ok |-> TRUE, resolved |-> resolved]

\* the parent FK and the document id injected into a nested record
Injected(schemaName, obj, resolved, parentId, parentFkColumn) ==
    LET withParent == IF parentId # NoParent /\ parentFkColumn # ""
                      THEN Assign(resolved, (parentFkColumn :> parentId))
                      ELSE resolved
    IN  IF schemaName = "expansion" /\ Has(obj, "_document_id") /\ obj["_document_id"] # 0
        THEN Assign(withParent, ("document_id" :> obj["_document_id"]))
        ELSE withParent

RECURSIVE doSave(_, _, _, _, _), SaveItems(_, _, _, _, _), SaveChildren(_, _, _, _, _)
RECURSIVE ThenItems(_, _, _, _, _), ThenChildren(_, _, _, _, _)
RECURSIVE SaveSchema(_, _, _, _, _, _), SaveResolved(_, _, _, _, _, _, _)
RECURSIVE SaveKeyed(_, _, _, _, _, _, _), SaveRow(_, _, _, _, _, _, _, _, _)
RECURSIVE SaveFound(_, _, _, _, _, _, _, _, _, _), WithChildren(_, _, _, _)

\* if (parentRow) childObj._document_id = parentRow.document_id
WithDocumentId(childObj, parentRows) ==
    IF parentRows = {} THEN childObj
    ELSE Assign(childObj, ("_document_id" :> FirstRow(parentRows).document_id))

\* the record doSave receives for one item: nested expansions carry the
\* document_id of the parent expansion's row
ChildObj(d, schemaName, childDef, item, rowId) ==
    IF childDef.schema = "expansion" /\ schemaName = "expansion"
    THEN WithDocumentId(expandShorthand(childDef, item).obj,
                        Matches(d, "expansions", ("id" :> rowId)))
    ELSE expandShorthand(childDef, item).obj

\* the rest of a child array, once the item before it is saved (r)
ThenItems(schemaName, childDef, rest, rowId, r) ==
    IF ~r.ok THEN r ELSE SaveItems(r.db, schemaName, childDef, rest, rowId)

\* 7. the items of one child array, in order
SaveItems(d, schemaName, childDef, items, rowId) ==
    IF items = <<>> THEN Ok(d, rowId)
    ELSE IF ~expandShorthand(childDef, Head(items)).ok THEN Fail(d, "TypeError")
    ELSE ThenItems(schemaName, childDef, Tail(items), rowId,
                   doSave(d, childDef.schema, ChildObj(d, schemaName, childDef, Head(items), rowId),
                          rowId, childDef.parentFkColumn))

\* the remaining child arrays, once the array before them is saved (r)
ThenChildren(schemaName, obj, rest, rowId, r) ==
    IF ~r.ok THEN r ELSE SaveChildren(r.db, schemaName, obj, rest, rowId)

\* 7. the child arrays of the record, in the order of the schema
SaveChildren(d, schemaName, obj, defs, rowId) ==
    IF defs = <<>> THEN Ok(d, rowId)
    ELSE IF ~Has(obj, Head(defs).key) THEN SaveChildren(d, schemaName, obj, Tail(defs), rowId)
    ELSE ThenChildren(schemaName, obj, Tail(defs), rowId,
                      SaveItems(d, schemaName, Head(defs), obj[Head(defs).key], rowId))

\* 7. the children are saved under the row just written (row)
WithChildren(schemaName, schema, obj, row) ==
    IF ~row.ok THEN row
    ELSE SaveChildren(row.db, schemaName, obj, schema.children, row.id)

\* 6. UPDATE the row the lookup returned (existing), or INSERT one
SaveFound(d, schemaName, schema, obj, parentId, parentFkColumn, resolved, where, colValues, existing) ==
    WithChildren(schemaName, schema, obj,
        IF DOMAIN where # {} /\ existing.found
        THEN UpdateExisting(d, schema, existing.id, colValues, resolved, where, parentFkColumn)
        ELSE InsertNew(d, schema, colValues, resolved, parentId, parentFkColumn))

\* 5b. look the row up by the WHERE clause
SaveRow(d, schemaName, schema, obj, parentId, parentFkColumn, resolved, where, colValues) ==
    SaveFound(d, schemaName, schema, obj, parentId, parentFkColumn, resolved, where, colValues,
              GetId(d, schema.table, where))

\* 3b-5c. par is the outcome of resolving the "parent" field of an expansion
SaveKeyed(d, schemaName, schema, obj, parentId, parentFkColumn, par) ==
    IF ~par.ok THEN Fail(d, "NotFound")
    ELSE IF schemaName = "metadata" THEN SaveMetadata(d, obj)
    ELSE SaveRow(d, schemaName, schema, obj, parentId, parentFkColumn, par.resolved,
                 NaturalKeyWhere(schema, par.resolved, ColValues(schema, obj),
                                 parentId, parentFkColumn),
                 DeniedApplied(schemaName, obj,
                     SeqAssigned(d, schemaName, obj, par.resolved, ColValues(schema, obj))))

\* 1-3. fks is the outcome of resolving the FKs of the record
SaveResolved(d, schemaName, schema, obj, parentId, parentFkColumn, fks) ==
    IF ~fks.ok THEN Fail(d, fks.err)
    ELSE IF schemaName = "_story_link" THEN doSaveStoryLink(d, obj, parentId)
    ELSE IF schemaName = "_check_dep" THEN doSaveCheckDep(d, obj, parentId)
    ELSE SaveKeyed(d, schemaName, schema, obj, parentId, parentFkColumn,
                   ExpansionParent(d, schemaName, obj,
                       Injected(schemaName, obj, fks.resolved, parentId, parentFkColumn),
                       parentId))

\* doSave(db, schema, schemaName, obj, parentId, parentFkColumn)
SaveSchema(d, schemaName, schema, obj, parentId, parentFkColumn) ==
    SaveResolved(d, schemaName, schema, obj, parentId, parentFkColumn,
                 ResolveFks(d, schema, obj))

\* doSave(db, SCHEMAS[schemaName], schemaName, obj, parentId, parentFkColumn)
doSave(d, schemaName, obj, parentId, parentFkColumn) ==
    SaveSchema(d, schemaName, SCHEMAS[schemaName], obj, parentId, parentFkColumn)

\* a call without the transaction: what was written before the throw stays
NoRollback(d, r) == r

\* db.transaction(fn)(): commit what fn did, or roll back when fn throws
Transaction(d, r) == IF r.ok THEN r ELSE [r EXCEPT !.db = d]

save(d, schemaName, obj) ==
    IF ~Registered(schemaName) THEN Fail(d, "UnknownSchema")
    ELSE IF schemaName \in ObjectPrototype THEN Transaction(d, Fail(d, "TypeError"))
    ELSE Transaction(d, doSave(d, schemaName, obj, NoParent, ""))


(***************************************************************************)
(* del                                                                     *)
(***************************************************************************)
\* the natural-key WHERE clause of del: resolved FKs and raw scalars only
DelNkColumn(schema, nk, resolved) ==
    LET fkIdx == {i \in DOMAIN schema.fks : schema.fks[i].field = nk}
    IN  IF fkIdx # {} /\ schema.fks[Min(fkIdx)].column \in DOMAIN resolved
        THEN schema.fks[Min(fkIdx)].column
        ELSE IF nk \in DOMAIN schema.columns THEN schema.columns[nk]
        ELSE ""

DelNkValue(schema, nk, obj, resolved) ==
    LET fkIdx == {i \in DOMAIN schema.fks : schema.fks[i].field = nk}
    IN  IF fkIdx # {} /\ schema.fks[Min(fkIdx)].column \in DOMAIN resolved
        THEN resolved[schema.fks[Min(fkIdx)].column]
        ELSE IF Has(obj, nk) THEN obj[nk]
        ELSE NullOf(schema.table, schema.columns[nk])

DelWhere(schema, obj, resolved) ==
    LET used == {i \in DOMAIN schema.naturalKey :
                    DelNkColumn(schema, schema.naturalKey[i], resolved) # ""}
    IN  [c \in {DelNkColumn(schema, schema.naturalKey[i], resolved) : i \in used} |->
            LET i == CHOOSE j \in used : DelNkColumn(schema, schema.naturalKey[j], resolved) = c
            IN  DelNkValue(schema, schema.naturalKey[i], obj, resolved)]

\* clean up the polymorphic story_links of the row the lookup returns
\* if (row) DELETE FROM story_links WHERE target_type = ? AND target_id = ?
CleanLinksOf(d, schemaName, row) ==
    IF row.found
    THEN DeleteWhere(d, "story_links",
                     ("target_type" :> <<schemaName>>) @@ ("target_id" :> row.id))
    ELSE d

CleanStoryLinks(d, schemaName, schema, where) ==
    IF schemaName \in {"entity", "document", "method"}
    THEN CleanLinksOf(d, schemaName, GetId(d, schema.table, where))
    ELSE d

\* a delete that throws when the WHERE clause names no row
DelKeyedOrThrow(d, schemaName, schema, where) ==
    IF Matches(d, schema.table, where) = {} THEN Fail(d, "NotFound")
    ELSE Ok(DeleteWhere(CleanStoryLinks(d, schemaName, schema, where), schema.table, where), 0)

\* the clean-up and the DELETE, by the WHERE clause of the natural key
DelKeyed(d, schemaName, schema, where) ==
    IF DOMAIN where = {} THEN Fail(d, "NoNaturalKey")
    ELSE Ok(DeleteWhere(CleanStoryLinks(d, schemaName, schema, where), schema.table, where), 0)

\* fks is the outcome of resolving the FKs of the record
DelResolved(d, schemaName, schema, obj, fks) ==
    IF ~fks.ok THEN Fail(d, fks.err)
    ELSE DelKeyed(d, schemaName, schema, DelWhere(schema, obj, fks.resolved))

DelSchema(d, schemaName, schema, obj) ==
    DelResolved(d, schemaName, schema, obj, ResolveFks(d, schema, obj))

doDel(d, schemaName, obj) == DelSchema(d, schemaName, SCHEMAS[schemaName], obj)

del(d, schemaName, obj) ==
    IF ~Registered(schemaName) THEN Fail(d, "UnknownSchema")
    ELSE IF schemaName \in ObjectPrototype THEN Transaction(d, Fail(d, "TypeError"))
    ELSE Transaction(d, doDel(d, schemaName, obj))

(***************************************************************************)
(* Change targets (getEntityDetail / getDocumentDetail of etl.ts).         *)
(***************************************************************************)
\* rows in ascending id order (ORDER BY id)
RECURSIVE OrderById(_)
OrderById(rows) ==
    IF rows = {} THEN <<>>
    ELSE LET r == CHOOSE x \in rows : \A y \in rows : x.id <= y.id
         IN  <<r>> \o OrderById(rows \ {r})

\* rows in the order of a scan without ORDER BY
RECURSIVE ScanOrder(_)
ScanOrder(rows) ==
    IF rows = {} THEN <<>>
    ELSE LET r == FirstRow(rows) IN <<r>> \o ScanOrder(rows \ {r})

\* chain.reverse()
RECURSIVE Reverse(_)
Reverse(q) == IF q = <<>> THEN <<>> ELSE Reverse(Tail(q)) \o <<Head(q)>>

Link(x) == [name |-> x.name, foreign_key |-> x.foreign_key]

\* while (cur !== null) { parent = expMap.get(cur); if (!parent) break; chain.push(..);
\* cur = parent.parent_expansion_id }.  The loop has no other exit: once cur
\* takes a value it has had before, it runs forever (seen records the values).
RECURSIVE WalkUp(_, _, _, _)
WalkUp(expMap, cur, chain, seen) ==
    IF cur = NULLI THEN [diverges |-> FALSE, chain |-> chain]
    ELSE IF cur \in seen THEN [diverges |-> TRUE, chain |-> chain]
    ELSE LET hit == {x \in expMap : x.id = cur}
         IN  IF hit = {} THEN [diverges |-> FALSE, chain |-> chain]
             ELSE LET parent == CHOOSE x \in hit : TRUE
                  IN  WalkUp(expMap, parent.parent_expansion_id,
                             Append(chain, Link(parent)), seen \cup {cur})

\* the chain as the walk collects it, leaf first
ChainLeafFirst(expMap, ex) ==
    WalkUp(expMap, ex.parent_expansion_id, <<Link(ex)>>, {})

\* the chain of one expansion, root first
ChainOf(expMap, ex) ==
    LET w == WalkUp(expMap, ex.parent_expansion_id, <<Link(ex)>>, {})
    IN  [diverges |-> w.diverges, chain |-> Reverse(w.chain)]

ChainPath(chain) == Join([i \in DOMAIN chain |-> chain[i].name])

\* [docFk, ...parentFks]
ChainFks(chain) ==
    <<chain[1].foreign_key>> \o [i \in 1..(Len(chain) - 1) |-> chain[i + 1].foreign_key]

DocOf(d, x) == CHOOSE r \in d.tables["documents"] : r.id = x.document_id
EntityOf(d, x) == CHOOSE r \in d.tables["entities"] : r.id = x.entity_id

\* a root entry that never reports a collection
RootChangeFlat(rd) ==
    [doc |-> rd.name, path |-> NULLT, collection |-> FALSE, fks |-> << <<"id">> >>]

\* changes.push({ doc, path: null, collection: !!rd.collection, fks: ["id"] })
RootChange(rd) ==
    [doc |-> rd.name, path |-> NULLT, collection |-> (rd.collection # 0), fks |-> << <<"id">> >>]

ExpansionChange(d, expMap, ex) ==
    LET chain == ChainOf(expMap, ex).chain
    IN  [doc |-> DocOf(d, ex).name, path |-> ChainPath(chain), collection |-> FALSE,
         fks |-> ChainFks(chain)]

\* every expansion in which the entity appears, belongs_to or not
EntityExpsAll(d, entityId) ==
    OrderById({x \in d.tables["expansions"] :
                 /\ x.entity_id = entityId
                 /\ \E r \in d.tables["documents"] : r.id = x.document_id})

\* the non-belongs_to expansions in which the entity appears, ORDER BY x.id
EntityExps(d, entityId) ==
    OrderById({x \in d.tables["expansions"] :
                 /\ x.entity_id = entityId
                 /\ x.belongs_to = 0
                 /\ \E r \in d.tables["documents"] : r.id = x.document_id})

\* getEntityDetail(name).changes : [found, diverges, changes]
EntityChanges(d, name) ==
    LET ent == Matches(d, "entities", ("name" :> name))
    IN  IF ent = {} THEN [found |-> FALSE, diverges |-> FALSE, changes |-> <<>>]
        ELSE
        LET entity   == FirstRow(ent)
            rootDocs == ScanOrder(Matches(d, "documents", ("entity_id" :> entity.id)))
            exps     == EntityExps(d, entity.id)
            expMap   == d.tables["expansions"]
        IN  IF \E i \in DOMAIN exps : ChainOf(expMap, exps[i]).diverges
            THEN [found |-> TRUE, diverges |-> TRUE, changes |-> <<>>]
            ELSE [found |-> TRUE, diverges |-> FALSE,
                  changes |-> [i \in DOMAIN rootDocs |-> RootChange(rootDocs[i])]
                              \o [i \in DOMAIN exps |-> ExpansionChange(d, expMap, exps[i])]]

\* the non-belongs_to expansions of the document, ORDER BY x.id
DocExps(d, docId) ==
    OrderById({x \in d.tables["expansions"] :
                 /\ x.document_id = docId
                 /\ x.belongs_to = 0
                 /\ \E e \in d.tables["entities"] : e.id = x.entity_id})

ChangedByEntry(d, expMap, ex) ==
    LET chain == ChainOf(expMap, ex).chain
    IN  [entity |-> EntityOf(d, ex).name, path |-> ChainPath(chain), fks |-> ChainFks(chain)]

\* getDocumentDetail(name) : [found, diverges, collection, changedBy]
DocumentChangedBy(d, name) ==
    LET docs == {r \in Matches(d, "documents", ("name" :> name)) :
                    \E e \in d.tables["entities"] : e.id = r.entity_id}
    IN  IF docs = {}
        THEN [found |-> FALSE, diverges |-> FALSE, collection |-> FALSE, changedBy |-> <<>>]
        ELSE
        LET doc    == FirstRow(docs)
            exps   == DocExps(d, doc.id)
            expMap == {x \in d.tables["expansions"] : x.document_id = doc.id}
        IN  IF \E i \in DOMAIN exps : ChainOf(expMap, exps[i]).diverges
            THEN [found |-> TRUE, diverges |-> TRUE, collection |-> (doc.collection # 0),
                  changedBy |-> <<>>]
            ELSE [found |-> TRUE, diverges |-> FALSE, collection |-> (doc.collection # 0),
                  changedBy |->
                    << [entity |-> (CHOOSE e \in d.tables["entities"] : e.id = doc.entity_id).name,
                        path |-> NULLT, fks |-> << <<"id">> >>] >>
                    \o [i \in DOMAIN exps |-> ChangedByEntry(d, expMap, exps[i])]]

(***************************************************************************)
(* The commands the callers issue.                                         *)
(***************************************************************************)
Cmd(schema, obj) == [schema |-> schema, obj |-> obj]
O(obj) == [obj |-> obj]
S(str) == [str |-> str]

ModelSaves ==
    { Cmd("entity", [name |-> <<"A">>,
                     fields |-> << O([name |-> <<"x">>, type |-> <<"number">>]) >>,
                     methods |-> << O([name |-> <<"m">>, publishes |-> << S(<<"x">>) >>]) >>]),
      Cmd("entity", [name |-> <<"B">>, methods |-> << O([name |-> <<"m">>]) >>]),
      Cmd("entity", [name |-> <<"B">>,
                     fields |-> << O([name |-> <<"x">>]),
                                   O([name |-> <<"y">>, entity |-> <<"Z">>]) >>]),
      Cmd("method", [entity |-> <<"A">>, name |-> <<"m">>, return_type |-> <<"A">>,
                     publishes |-> << S(<<"y">>), O([method |-> <<"A">>]) >>]),
      Cmd("entity", [name |-> <<"B">>,
                     fields |-> << O([name |-> <<"y">>]), O([name |-> <<"x">>]) >>]),
      Cmd("field", [entity |-> <<"A">>, name |-> <<"y">>]),
      Cmd("field", [name |-> <<"x">>, type |-> <<"date">>]),
      Cmd("method", [entity |-> <<"B">>, name |-> <<"m">>, args |-> <<ARRAY, "a", "b">>,
                     auth_required |-> FALSE]),
      Cmd("field", [entity |-> <<"B">>, type |-> <<"date">>]),
      Cmd("story", [actor |-> <<"u">>, action |-> <<"do">>,
                    links |-> << O([type |-> <<"method">>, name |-> <<"A", ".", "m">>]),
                                 O([type |-> <<"method">>, name |-> <<"B", ".", "m">>]) >>]) }

ModelDels ==
    { Cmd("entity", [name |-> <<"A">>]),
      Cmd("method", [entity |-> <<"A">>, name |-> <<"m">>]),
      Cmd("method", [name |-> <<"m">>]),
      Cmd("field", [name |-> <<"x">>]) }

CheckSaves ==
    { Cmd("entity", [name |-> <<"A">>,
                     methods |-> << O([name |-> <<"m">>]), O([name |-> <<"n">>]) >>]),
      Cmd("checklist", [name |-> <<"L">>]),
      Cmd("checklist", [name |-> <<"L">>,
                        checks |-> << O([actor |-> <<"u">>, description |-> <<"changed">>]) >>]),
      Cmd("check", [checklist |-> <<"L">>, actor |-> <<"u">>, method |-> <<"A", ".", "m">>]),
      Cmd("check", [checklist |-> <<"L">>, actor |-> <<"u">>, method |-> <<"A", ".", "m">>,
                    seq |-> 2, description |-> <<"first">>]),
      Cmd("check", [checklist |-> <<"L">>, actor |-> <<"u">>, method |-> <<"A", ".", "n">>,
                    denied |-> TRUE, seq |-> 1]),
      Cmd("check", [checklist |-> <<"L">>, actor |-> <<"u">>, confirmed |-> 1, seq |-> 1]),
      Cmd("check", [checklist |-> <<"L">>, actor |-> <<"u">>,
                    method |-> <<"A", ".", "m", ".", "x">>]),
      Cmd("check", [checklist |-> <<"L">>, actor |-> <<"u">>, method |-> <<"A", ".", "n">>,
                    action |-> <<"can">>, denied |-> TRUE, seq |-> 1]) }

CheckDels ==
    { Cmd("entity", [name |-> <<"A">>]),
      Cmd("method", [entity |-> <<"A">>, name |-> <<"m">>]),
      Cmd("check", [checklist |-> <<"L">>, actor |-> <<"u">>, method |-> <<"A", ".", "n">>]),
      Cmd("check", [checklist |-> <<"L">>, actor |-> <<"u">>]),
      Cmd("check", [checklist |-> <<"L">>, actor |-> <<"u">>, method |-> <<"A">>]) }

DocSaves ==
    { Cmd("entity", [name |-> <<"P">>]),
      Cmd("entity", [name |-> <<"T">>]),
      Cmd("document", [name |-> <<"D">>, entity |-> <<"P">>, collection |-> TRUE]),
      Cmd("document", [name |-> <<"E">>, entity |-> <<"T">>]),
      Cmd("document", [name |-> <<"D">>,
                       expansions |-> << O([name |-> <<"tasks">>, entity |-> <<"T">>,
                                            foreign_key |-> <<"project_id">>,
                                            expansions |-> << O([name |-> <<"comments">>,
                                                                 entity |-> <<"T">>,
                                                                 foreign_key |-> <<"task_id">>]) >>]) >>]),
      Cmd("expansion", [document |-> <<"D">>, name |-> <<"owner">>, entity |-> <<"P">>,
                        foreign_key |-> <<"owner_id">>, belongs_to |-> TRUE]),
      Cmd("expansion", [document |-> <<"D">>, name |-> <<"comments">>, entity |-> <<"T">>,
                        foreign_key |-> <<"task_id">>, parent |-> <<"owner">>]),
      Cmd("expansion", [document |-> <<"D">>, name |-> <<"tasks">>, parent |-> <<"tasks">>]),
      Cmd("expansion", [document |-> <<"D">>, name |-> <<"tasks">>, shallow |-> TRUE]),
      Cmd("document", [name |-> <<"E">>,
                       expansions |-> << O([name |-> <<"tasks">>, foreign_key |-> <<"moved">>,
                                            _document_id |-> 1]) >>]) }

DocDels ==
    { Cmd("document", [name |-> <<"D">>]),
      Cmd("expansion", [document |-> <<"D">>, name |-> <<"tasks">>]),
      Cmd("expansion", [document |-> <<"D">>, name |-> <<"owner">>]) }

DepSaves ==
    { Cmd("entity", [name |-> <<"A">>, methods |-> << O([name |-> <<"m">>]) >>]),
      Cmd("checklist", [name |-> <<"L">>]),
      Cmd("check", [checklist |-> <<"L">>, actor |-> <<"u">>, method |-> <<"A", ".", "m">>]),
      Cmd("check", [checklist |-> <<"L">>, actor |-> <<"v">>, seq |-> 2,
                    depends_on |-> << O([id |-> 1]) >>]),
      Cmd("check", [checklist |-> <<"L">>, actor |-> <<"u">>, method |-> <<"A", ".", "m">>,
                    seq |-> 1, depends_on |-> << O([id |-> 1]) >>]) }

DepDels ==
    { Cmd("check", [checklist |-> <<"L">>, actor |-> <<"u">>, method |-> <<"A", ".", "m">>]) }

CliSaves ==
    { Cmd("bogus", [name |-> <<"A">>]),
      Cmd("constructor", [name |-> <<"A">>]),
      Cmd("entity", [name |-> <<"A">>, methods |-> << O([name |-> <<"m">>]) >>]),
      Cmd("story", [actor |-> <<"u">>, action |-> <<"do">>,
                    links |-> << O([type |-> <<"method">>, name |-> <<"A", ".", "m">>]) >>]) }

CliDels ==
    { Cmd("checklist", [name |-> <<"L">>]),
      Cmd("bogus", [name |-> <<"A">>]),
      Cmd("constructor", [name |-> <<"A">>]) }

SaveInputs(sc) ==
    IF sc = "model" THEN ModelSaves
    ELSE IF sc = "checks" THEN CheckSaves
    ELSE IF sc = "docs" THEN DocSaves
    ELSE IF sc = "deps" THEN DepSaves
    ELSE CliSaves

DelInputs(sc) ==
    IF sc = "model" THEN ModelDels
    ELSE IF sc = "checks" THEN CheckDels
    ELSE IF sc = "docs" THEN DocDels
    ELSE IF sc = "deps" THEN DepDels
    ELSE CliDels

Scenarios == {"model", "checks", "docs", "cli", "deps"}

(***************************************************************************)
(* The state machine: one action per top-level call.                       *)
(***************************************************************************)
Done(op, c, r) ==
    [op |-> op, schema |-> c.schema, obj |-> c.obj, ok |-> r.ok, id |-> r.id, err |-> r.err]

Init ==
    /\ db = EmptyDb
    /\ last = [op |-> "none", schema |-> "", obj |-> Empty, ok |-> TRUE, id |-> 0, err |-> "none"]
    /\ scanOrder \in {"asc", "desc"}
    /\ scenario \in Scenarios
    /\ site = SiteLoaded

\* the store and the record of the call, once the call c has returned r
Returned(op, c, r) ==
    /\ db' = r.db
    /\ last' = Done(op, c, r)
    /\ UNCHANGED <<scanOrder, scenario, site>>

\* the calls the model follows stay within the bounds
WithinBounds(r) ==
    /\ r.err # "BOUND"
    /\ \A k \in r.db.tables["checks"] : k.seq <= MaxSeqVal

SaveReturned(c, r) == WithinBounds(r) /\ Returned("save", c, r)

Save == \E c \in SaveInputs(scenario) : SaveReturned(c, save(db, c.schema, c.obj))

Del == \E c \in DelInputs(scenario) : Returned("del", c, del(db, c.schema, c.obj))

(***************************************************************************)
(* The command line (cli.ts): dispatch, import and batch mode.             *)
(***************************************************************************)
\* the schema names whose first character is "_"
Underscored == {"_story_link", "_check_dep"}

\* !SCHEMAS[schemaName] || schemaName.startsWith("_")
Rejected(schemaName) == ~Registered(schemaName) \/ schemaName \in Underscored

\* dispatch: case "save" and case "delete"
dispatch(d, command, schemaName, obj) ==
    IF Rejected(schemaName) THEN Fail(d, "UnknownSchema")
    ELSE IF command = "save" THEN save(d, schemaName, obj)
    ELSE del(d, schemaName, obj)

\* a key of an import file is written head \o tail, tail its longest suffix
\* among "ies", "s" and ""
Key(head, tail) == [head |-> head, tail |-> tail]
Entry(key, items) == [key |-> key, array |-> TRUE, items |-> items]
NotArray(key) == [key |-> key, array |-> FALSE, items |-> <<>>]

\* basic plural-to-singular mapping
Singular(key) ==
    IF Registered(key.head \o key.tail) THEN key.head \o key.tail
    ELSE IF key.tail = "ies" /\ Registered(key.head \o "y") THEN key.head \o "y"
    ELSE IF key.tail = "ies" /\ Registered(key.head \o "ie") THEN key.head \o "ie"
    ELSE IF key.tail = "s" /\ Registered(key.head) THEN key.head
    ELSE key.head \o key.tail

\* save(db, schemaName, item); imported++
ImportItem(acc, r) ==
    [ok |-> r.ok, db |-> r.db, err |-> r.err,
     imported |-> acc.imported + (IF r.ok THEN 1 ELSE 0),
     within |-> acc.within /\ r.err # "BOUND"]

RECURSIVE ImportItems(_, _, _)
ImportItems(acc, schemaName, items) ==
    IF ~acc.ok \/ items = <<>> THEN acc
    ELSE ImportItems(ImportItem(acc, save(acc.db, schemaName, Head(items))),
                     schemaName, Tail(items))

ImportThrown(acc, e) == [acc EXCEPT !.ok = FALSE, !.err = e]

ImportEntry(acc, schemaName, entry) ==
    IF Rejected(schemaName) THEN ImportThrown(acc, "UnknownSchema")
    ELSE IF ~entry.array THEN ImportThrown(acc, "ExpectedArray")
    ELSE ImportItems(acc, schemaName, entry.items)

RECURSIVE ImportEntries(_, _)
ImportEntries(acc, data) ==
    IF ~acc.ok \/ data = <<>> THEN acc
    ELSE ImportEntries(ImportEntry(acc, Singular(Head(data).key), Head(data)), Tail(data))

\* the loop over the file without a transaction around it
ImportNoOuter(d, data) ==
    ImportEntries([ok |-> TRUE, db |-> d, err |-> "none", imported |-> 0, within |-> TRUE], data)

\* case "import": every item of the file in one transaction
import(d, data) ==
    Transaction(d, ImportEntries([ok |-> TRUE, db |-> d, err |-> "none",
                                  imported |-> 0, within |-> TRUE], data))

\* a line of the batch input: JSON of [command, schemaName, obj], or not JSON
Line(command, schema, obj) == [json |-> TRUE, command |-> command, schema |-> schema, obj |-> obj]
NotJson == [json |-> FALSE, command |-> "", schema |-> "", obj |-> Empty]
SaveLine(c) == Line("save", c.schema, c.obj)
DeleteLine(c) == Line("delete", c.schema, c.obj)

\* the body of the try block of one line
BatchLine(d, line) ==
    IF ~line.json THEN Fail(d, "SyntaxError")
    ELSE IF line.command = "save" THEN save(d, line.schema, line.obj)
    ELSE IF line.command = "delete" THEN del(d, line.schema, line.obj)
    ELSE Fail(d, "Unsupported")

\* ok++ after the call, fail++ in the catch block
Counted(acc, r) ==
    [db |-> r.db,
     ok |-> acc.ok + (IF r.ok THEN 1 ELSE 0),
     fail |-> acc.fail + (IF r.ok THEN 0 ELSE 1),
     within |-> acc.within /\ WithinBounds(r)]

\* a loop that ends at the first line that throws
RECURSIVE BatchUntilThrown(_, _)
BatchUntilThrown(acc, lines) ==
    IF lines = <<>> \/ acc.fail > 0 THEN acc
    ELSE BatchUntilThrown(Counted(acc, BatchLine(acc.db, Head(lines))), Tail(lines))

\* for (const line of lines) { try { ... ok++ } catch { fail++ } }
RECURSIVE BatchLines(_, _)
BatchLines(acc, lines) ==
    IF lines = <<>> THEN acc
    ELSE BatchLines(Counted(acc, BatchLine(acc.db, Head(lines))), Tail(lines))

batch(d, lines) == BatchLines([db |-> d, ok |-> 0, fail |-> 0, within |-> TRUE], lines)

CliBatches ==
    { << SaveLine(Cmd("entity", [name |-> <<"A">>,
                                 fields |-> << O([name |-> <<"x">>]) >>,
                                 methods |-> << O([name |-> <<"m">>]) >>])),
         SaveLine(Cmd("entity", [name |-> <<"B">>,
                                 fields |-> << O([name |-> <<"x">>]),
                                               O([name |-> <<"y">>, entity |-> <<"Z">>]) >>])),
         SaveLine(Cmd("field", [entity |-> <<"A">>, name |-> <<"y">>])) >>,
      << SaveLine(Cmd("_story_link", [type |-> <<"method">>, name |-> <<"A", ".", "m">>])),
         DeleteLine(Cmd("_story_link", [type |-> <<"method">>, name |-> <<"A", ".", "m">>])),
         DeleteLine(Cmd("method", [entity |-> <<"A">>, name |-> <<"m">>])) >>,
      << NotJson,
         Line("list", "entity", Empty),
         SaveLine(Cmd("checklist", [name |-> <<"L">>])) >>,
      << SaveLine(Cmd("check", [checklist |-> <<"L">>, actor |-> <<"u">>,
                                method |-> <<"A", ".", "m">>])),
         SaveLine(Cmd("_check_dep", [depends_on_id |-> 1])),
         DeleteLine(Cmd("_check_dep", [depends_on_id |-> 1])) >> }

Batches(sc) == IF sc = "cli" THEN CliBatches ELSE {}

CliImports ==
    { << Entry(Key("entit", "ies"),
               << [name |-> <<"A">>, methods |-> << O([name |-> <<"m">>]) >>],
                  [name |-> <<"B">>] >>),
         Entry(Key("field", "s"),
               << [entity |-> <<"A">>, name |-> <<"x">>],
                  [entity |-> <<"Z">>, name |-> <<"y">>] >>) >>,
      << Entry(Key("entity", ""), << [name |-> <<"A">>, methods |-> << O([name |-> <<"m">>]) >>] >>),
         Entry(Key("_story_link", "s"),
               << [type |-> <<"method">>, name |-> <<"A", ".", "m">>] >>) >>,
      << Entry(Key("checklist", "s"), << [name |-> <<"L">>] >>),
         Entry(Key("_check_dep", ""), << [depends_on_id |-> 1] >>) >>,
      << Entry(Key("checklist", "s"), << [name |-> <<"L">>] >>),
         NotArray(Key("check", "s")) >>,
      << Entry(Key("entit", "ies"), << [name |-> <<"A">>, methods |-> << O([name |-> <<"m">>]) >>] >>),
         Entry(Key("checklist", "s"), << [name |-> <<"L">>] >>) >> }

Imports(sc) == IF sc = "cli" THEN CliImports ELSE {}

\* the store and the record of a batch, once it has printed its counts
BatchReturned(lines, r) ==
    /\ r.within
    /\ db' = r.db
    /\ last' = [op |-> "batch", schema |-> "", obj |-> Empty, ok |-> TRUE, id |-> 0,
                err |-> "none", lines |-> lines, okCount |-> r.ok, failCount |-> r.fail,
                total |-> Len(lines)]
    /\ UNCHANGED <<scanOrder, scenario, site>>

Batch == \E lines \in Batches(scenario) : BatchReturned(lines, batch(db, lines))

ImportReturned(data, r) ==
    /\ r.within
    /\ db' = r.db
    /\ last' = [op |-> "import", schema |-> "", obj |-> Empty, ok |-> r.ok, id |-> 0,
                err |-> r.err, data |-> data, imported |-> r.imported]
    /\ UNCHANGED <<scanOrder, scenario, site>>

Import == \E data \in Imports(scenario) : ImportReturned(data, import(db, data))

Next == Save \/ Del \/ Batch \/ Import

Spec == Init /\ [][Next]_vars


(***************************************************************************)
(* Properties of save and del.                                             *)
(***************************************************************************)
\* the columns that hold the natural key of a schema
KeyColumns(schemaName) ==
    IF schemaName = "_story_link" THEN {"story_id", "target_type", "target_id"}
    ELSE IF schemaName = "_check_dep" THEN {"check_id", "depends_on_id"}
    ELSE LET schema == SCHEMAS[schemaName]
         IN  {LET nk    == schema.naturalKey[i]
                  fkIdx == {j \in DOMAIN schema.fks : schema.fks[j].field = nk}
              IN  IF fkIdx # {} THEN schema.fks[Min(fkIdx)].column ELSE schema.columns[nk]
              : i \in DOMAIN schema.naturalKey}

\* the record gives every natural-key field of the schema
KeyGiven(schemaName, obj) ==
    \A i \in DOMAIN SCHEMAS[schemaName].naturalKey : Has(obj, SCHEMAS[schemaName].naturalKey[i])

\* every natural-key field of a top-level record can be determined: it is
\* given, or it is a scalar with a schema default
KeyDetermined(schemaName, obj) ==
    LET schema == SCHEMAS[schemaName]
    IN  \A i \in DOMAIN schema.naturalKey :
            LET nk == schema.naturalKey[i]
            IN  \/ Has(obj, nk)
                \/ nk \in DOMAIN schema.columns /\ nk \in DOMAIN schema.defaults

\* two records of one schema give the same natural key
SameKey(schemaName, a, b) ==
    /\ KeyGiven(schemaName, a)
    /\ KeyGiven(schemaName, b)
    /\ \A i \in DOMAIN SCHEMAS[schemaName].naturalKey :
          a[SCHEMAS[schemaName].naturalKey[i]] = b[SCHEMAS[schemaName].naturalKey[i]]

\* C1: a save that succeeded, repeated at once with the same record, changes
\* no table (no row added, no column changed, nested children included) and
\* returns the same surrogate id.
C1_SaveIdempotent ==
    (last.op = "save" /\ last.ok) =>
        LET again == save(db, last.schema, last.obj)
        IN  again.ok /\ again.db = db /\ again.id = last.id

\* C2: after save(R1), a save(R2) with the same natural key goes to the same
\* row, which stays the only row with that key; every column R2 gives holds
\* R2's value and every column R1 gave and R2 omits still holds R1's value.
C2_Coalescing ==
    (last.op = "save" /\ last.ok /\ last.schema # "metadata") =>
        \A c \in SaveInputs(scenario) :
            (c.schema = last.schema /\ SameKey(last.schema, last.obj, c.obj)) =>
                LET schema == SCHEMAS[c.schema]
                    r      == save(db, c.schema, c.obj)
                    row    == RowById(r.db, schema.table, r.id)
                IN  r.ok =>
                      /\ r.id = last.id
                      /\ \A o \in r.db.tables[schema.table] :
                            (\A k \in KeyColumns(c.schema) : o[k] = row[k]) => o = row
                      /\ \A k \in DOMAIN schema.columns :
                            /\ Has(c.obj, k) =>
                                  row[schema.columns[k]] = ColValues(schema, c.obj)[schema.columns[k]]
                            /\ (Has(last.obj, k) /\ ~Has(c.obj, k)) =>
                                  row[schema.columns[k]] = ColValues(schema, last.obj)[schema.columns[k]]

\* C3: a save that fails, at the root or in a nested child, leaves the store
\* as it was before the call.
C3_SaveAtomic ==
    [][(last'.op = "save" /\ ~last'.ok) => db' = db]_vars

\* a failed save that had written rows before it failed
C3_Witness ==
    /\ last.op = "save"
    /\ ~last.ok
    /\ doSave(db, last.schema, last.obj, NoParent, "").db # db

C5_UndeterminedKeyFails ==
    [][(last'.op = "save" /\ last'.schema \in SchemaNames /\ ~KeyDetermined(last'.schema, last'.obj))
          => (~last'.ok /\ db' = db)]_vars

\* C6: a del whose record does not give every natural-key field fails and
\* deletes nothing.
C6_IncompleteKeyFails ==
    [][(last'.op = "del" /\ last'.schema \in SchemaNames /\ ~KeyGiven(last'.schema, last'.obj))
          => (~last'.ok /\ db' = db)]_vars

\* C7: after a successful del of an entity, document or method, no story
\* link names a row that the del removed from that schema's table.
C7_LinksCleaned ==
    [][(last'.op = "del" /\ last'.ok /\ last'.schema \in {"entity", "document", "method"})
          => \A gone \in db.tables[SCHEMAS[last'.schema].table] :
                (~\E r \in db'.tables[SCHEMAS[last'.schema].table] : r.id = gone.id)
                   => ~\E l \in db'.tables["story_links"] :
                          l.target_type = <<last'.schema>> /\ l.target_id = gone.id]_vars


(***************************************************************************)
(* Properties of the change targets.                                       *)
(***************************************************************************)
\* the expansions from the document's direct child down to x, root first;
\* <<>> when x has no such line (its parents form a cycle)
RECURSIVE RootFirst(_, _, _)
RootFirst(d, x, fuel) ==
    IF x.parent_expansion_id = NULLI THEN <<x>>
    ELSE IF fuel = 0 THEN <<>>
    ELSE LET ps == {p \in d.tables["expansions"] : p.id = x.parent_expansion_id}
         IN  IF ps = {} THEN <<>>
             ELSE LET up == RootFirst(d, CHOOSE p \in ps : TRUE, fuel - 1)
                  IN  IF up = <<>> THEN <<>> ELSE Append(up, x)

Lineage(d, x) == RootFirst(d, x, Cardinality(d.tables["expansions"]))

LineagePath(d, x) == Join([i \in DOMAIN Lineage(d, x) |-> Lineage(d, x)[i].name])

LineageKeys(d, x) == [i \in DOMAIN Lineage(d, x) |-> Lineage(d, x)[i].foreign_key]

\* C8: for every expansion with belongs_to = 0 at depth n under a document,
\* the change targets of its entity hold an entry that names the document,
\* whose path is the names of the line root first joined by ".", and whose
\* keys are the n foreign keys of the line root first.
C8_ChangeTargetChain ==
    \A x \in db.tables["expansions"] :
        (x.belongs_to = 0 /\ Lineage(db, x) # <<>>) =>
            LET det == EntityChanges(db, EntityOf(db, x).name)
            IN  ~det.diverges =>
                  \E i \in DOMAIN det.changes :
                      /\ det.changes[i].doc = DocOf(db, x).name
                      /\ det.changes[i].path = LineagePath(db, x)
                      /\ det.changes[i].fks = LineageKeys(db, x)
                      /\ Len(det.changes[i].fks) = Len(Lineage(db, x))

\* a nested expansion whose entity has the two-key target "tasks.comments"
C8_Witness ==
    \E x \in db.tables["expansions"] :
        /\ x.belongs_to = 0
        /\ Len(Lineage(db, x)) = 2
        /\ LET det == EntityChanges(db, EntityOf(db, x).name)
           IN  /\ ~det.diverges
               /\ \E i \in DOMAIN det.changes :
                     /\ det.changes[i].path = <<"tasks", ".", "comments">>
                     /\ det.changes[i].fks = << <<"project_id">>, <<"task_id">> >>

\* C9: an expansion with belongs_to = 1 is the subject of no change target:
\* neither the changes of its entity nor the changedBy list of its document
\* holds an entry with its path, and an entity that a document holds only
\* through belongs_to expansions has no entry with a path for that document.
C9_BackReferenceExcluded ==
    /\ \A x \in db.tables["expansions"] :
          (x.belongs_to = 1 /\ Lineage(db, x) # <<>>) =>
              LET ec == EntityChanges(db, EntityOf(db, x).name)
                  dc == DocumentChangedBy(db, DocOf(db, x).name)
              IN  /\ ~ec.diverges =>
                        ~\E i \in DOMAIN ec.changes :
                            /\ ec.changes[i].doc = DocOf(db, x).name
                            /\ ec.changes[i].path = LineagePath(db, x)
                  /\ ~dc.diverges =>
                        ~\E i \in DOMAIN dc.changedBy :
                            dc.changedBy[i].path = LineagePath(db, x)
    /\ \A e \in db.tables["entities"], doc \in db.tables["documents"] :
          (/\ \A x \in db.tables["expansions"] :
                  (x.entity_id = e.id /\ x.document_id = doc.id) => x.belongs_to = 1
           /\ ~EntityChanges(db, e.name).diverges) =>
              ~\E i \in DOMAIN EntityChanges(db, e.name).changes :
                  /\ EntityChanges(db, e.name).changes[i].doc = doc.name
                  /\ EntityChanges(db, e.name).changes[i].path # NULLT

\* a belongs_to expansion that is walked through as the parent of another
C9_Witness ==
    \E x, y \in db.tables["expansions"] :
        /\ x.belongs_to = 1
        /\ y.belongs_to = 0
        /\ y.parent_expansion_id = x.id
        /\ LET ec == EntityChanges(db, EntityOf(db, y).name)
           IN  /\ ~ec.diverges
               /\ \E i \in DOMAIN ec.changes : ec.changes[i].path = <<"owner", ".", "comments">>

\* C10: the changes of the root entity of a document hold exactly one entry
\* without a path for it, with the key list ["id"] and the collection flag
\* of the document; every entry with a path has collection = false; and the
\* changedBy list of the document holds exactly one entry without a path,
\* naming the root entity with the key list ["id"].
C10_RootEntityTarget ==
    \A doc \in db.tables["documents"] :
        LET ec == EntityChanges(db, EntityOf(db, doc).name)
            dc == DocumentChangedBy(db, doc.name)
        IN  /\ ~ec.diverges =>
                /\ Cardinality({i \in DOMAIN ec.changes :
                                   ec.changes[i].doc = doc.name /\ ec.changes[i].path = NULLT}) = 1
                /\ \A i \in DOMAIN ec.changes :
                      IF ec.changes[i].path = NULLT
                      THEN ec.changes[i].doc = doc.name =>
                              /\ ec.changes[i].fks = << <<"id">> >>
                              /\ ec.changes[i].collection = (doc.collection = 1)
                      ELSE ec.changes[i].collection = FALSE
            /\ ~dc.diverges =>
                /\ Cardinality({i \in DOMAIN dc.changedBy : dc.changedBy[i].path = NULLT}) = 1
                /\ \A i \in DOMAIN dc.changedBy :
                      dc.changedBy[i].path = NULLT =>
                          /\ dc.changedBy[i].entity = EntityOf(db, doc).name
                          /\ dc.changedBy[i].fks = << <<"id">> >>

\* a collection document with expansions, and a document that is no collection
C10_Witness ==
    /\ \E doc \in db.tables["documents"] :
          /\ doc.collection = 1
          /\ \E x \in db.tables["expansions"] : x.document_id = doc.id /\ x.belongs_to = 0
          /\ LET ec == EntityChanges(db, EntityOf(db, doc).name)
             IN  /\ ~ec.diverges
                 /\ \E i \in DOMAIN ec.changes :
                       ec.changes[i].path = NULLT /\ ec.changes[i].collection = TRUE
    /\ \E doc \in db.tables["documents"] : doc.collection = 0

(***************************************************************************)
(* The chain walk over stored parent links.                                *)
(***************************************************************************)
\* C11: over any stored expansions, cyclic parent links included, computing
\* the change targets of an entity or of a document ends: the walk up the
\* parent links never runs without bound.
C11_WalkBounded ==
    /\ \A e \in db.tables["entities"] : ~EntityChanges(db, e.name).diverges
    /\ \A doc \in db.tables["documents"] : ~DocumentChangedBy(db, doc.name).diverges

(***************************************************************************)
(* Foreign-key resolution as a function of the store and the value.        *)
(***************************************************************************)
\* the values given to resolveFk
FkValues ==
    { <<>>, <<"A">>, <<"m">>, <<"Z">>, <<".">>, <<"A", ".">>, <<".", "m">>,
      <<"A", ".", "m">>, <<"A", ".", "n">>, <<"B", ".", "m">>, <<"A", ".", "z">>,
      <<"Z", ".", "m">>, <<"A", ".", ".", "m">>, <<"A", ".", "m", ".", "x">>,
      <<".", ".">> }

\* the number of "." in a value
DotCount(v) == Cardinality({i \in DOMAIN v : v[i] = "."})

\* the rule of the "method" field of publish, notification, permission, check
MethodRule == Fk("method", "method_id", MethodFk)

\* the schemas whose "method" field is a compound FK
CompoundSchemas ==
    {sn \in SchemaNames :
        \E i \in DOMAIN SCHEMAS[sn].fks :
            SCHEMAS[sn].fks[i].field = "method" /\ SCHEMAS[sn].fks[i].resolve.type = "compound"}

\* resolveFk on the compound rule, on every store the commands reach
C12_Resolve ==
    \A v \in FkValues :
        /\ DotCount(v) # 1 => resolveFk(db, MethodRule, v) = Thrown("Malformed")
        /\ \A e \in db.tables["entities"], m \in db.tables["methods"] :
              (m.entity_id = e.id /\ v = e.name \o <<".">> \o m.name /\ DotCount(v) = 1)
                  => resolveFk(db, MethodRule, v) = Found(m.id)

\* a save or del whose record gives a compound FK without exactly one "."
C12_Abort ==
    (/\ last'.op \in {"save", "del"}
     /\ last'.schema \in CompoundSchemas
     /\ Has(last'.obj, "method")
     /\ DotCount(last'.obj["method"]) # 1) => (~last'.ok /\ db' = db)

\* C12: resolveFk on a compound rule returns the child's id for "P.c" when P
\* exists and has the child c, and throws the malformed-reference error for
\* every value with no "." and every value with two or more "."; a save or
\* del that meets the error fails and leaves the store unchanged.
C12_CompoundFormat == []C12_Resolve /\ [][C12_Abort]_vars

\* a store where "A.m" resolves, reached by a save that failed on "A.m.x"
C12_Witness ==
    /\ last.op = "save"
    /\ ~last.ok
    /\ last.err = "Malformed"
    /\ Has(last.obj, "method")
    /\ DotCount(last.obj["method"]) = 2
    /\ resolveFk(db, MethodRule, <<"A", ".", "m">>).ok
    /\ resolveFk(db, MethodRule, <<"A">>) = Thrown("Malformed")

\* the parent part or the child part of a value with one "." is empty
EmptyPart(v) == DotCount(v) = 1 /\ (Head(v) = "." \/ v[Len(v)] = ".")

\* C13: resolving a compound value whose parent part or child part is empty
\* ("A." or ".m") throws the malformed-reference error, not NotFound.
C13_EmptyPartMalformed ==
    \A v \in FkValues :
        EmptyPart(v) => resolveFk(db, MethodRule, v) = Thrown("Malformed")

\* the tables a simple FK rule looks up, each by its name column
SimpleTables ==
    UNION {{SCHEMAS[sn].fks[i].resolve.table :
               i \in {j \in DOMAIN SCHEMAS[sn].fks : SCHEMAS[sn].fks[j].resolve.type = "simple"}}
           : sn \in SchemaNames}

SimpleRule(t) == Fk("ref", "ref_id", SimpleFk(t, "name"))

\* the values given to a simple rule
NameValues ==
    FkValues \cup {<<"B">>, <<"P">>, <<"T">>, <<"D">>, <<"E">>, <<"L">>, <<"a">>}

\* resolveFk on a simple rule, on every store the commands reach
C14_Resolve ==
    \A t \in SimpleTables :
        /\ \A v \in NameValues :
              IF \E row \in db.tables[t] : row.name = v
              THEN /\ resolveFk(db, SimpleRule(t), v).ok
                   /\ \E row \in db.tables[t] :
                         row.id = resolveFk(db, SimpleRule(t), v).id /\ row.name = v
              ELSE resolveFk(db, SimpleRule(t), v) = Thrown("NotFound")
        /\ \A r1, r2 \in db.tables[t] :
              r1.name # r2.name =>
                  resolveFk(db, SimpleRule(t), r1.name).id # resolveFk(db, SimpleRule(t), r2.name).id

\* a save whose record gives a simple FK field a value that matches no row
C14_Abort ==
    (/\ last'.op = "save"
     /\ last'.schema \in SchemaNames
     /\ \E i \in DOMAIN SCHEMAS[last'.schema].fks :
           /\ SCHEMAS[last'.schema].fks[i].resolve.type = "simple"
           /\ Has(last'.obj, SCHEMAS[last'.schema].fks[i].field)
           /\ ~\E row \in db.tables[SCHEMAS[last'.schema].fks[i].resolve.table] :
                  row.name = last'.obj[SCHEMAS[last'.schema].fks[i].field])
        => (~last'.ok /\ db' = db)

\* C14: resolveFk on a simple rule returns the id of the row of the rule's
\* table whose lookup column equals the value (distinct existing values give
\* distinct ids) and throws NotFound when no row matches; a save that meets
\* the error fails and leaves the store unchanged.
C14_SimpleResolution == []C14_Resolve /\ [][C14_Abort]_vars

\* two entities that resolve to two ids, after a save failed on an unknown name
C14_Witness ==
    /\ last.op = "save"
    /\ ~last.ok
    /\ last.err = "NotFound"
    /\ resolveFk(db, SimpleRule("entities"), <<"A">>).ok
    /\ resolveFk(db, SimpleRule("entities"), <<"B">>).ok
    /\ resolveFk(db, SimpleRule("entities"), <<"A">>).id
          # resolveFk(db, SimpleRule("entities"), <<"B">>).id
    /\ ~resolveFk(db, SimpleRule("entities"), <<"Z">>).ok

(***************************************************************************)
(* Reading back what a save wrote.                                         *)
(***************************************************************************)
\* the row a successful save of the record obj wrote or found
SavedRow(d, schemaName, obj, id) ==
    IF schemaName = "metadata"
    THEN CHOOSE r \in d.tables["metadata"] : r.key = obj["key"]
    ELSE RowById(d, SCHEMAS[schemaName].table, id)

\* the row holds every scalar field and every FK field the record gives
ReadsBack(d, schemaName, obj, row) ==
    /\ \A k \in (DOMAIN SCHEMAS[schemaName].columns) \cap (DOMAIN obj) :
          row[SCHEMAS[schemaName].columns[k]]
             = Coerced(SCHEMAS[schemaName], SCHEMAS[schemaName].columns[k], k, obj[k])
    /\ \A i \in DOMAIN SCHEMAS[schemaName].fks :
          Has(obj, SCHEMAS[schemaName].fks[i].field) =>
              row[SCHEMAS[schemaName].fks[i].column]
                 = resolveFk(d, SCHEMAS[schemaName].fks[i],
                             obj[SCHEMAS[schemaName].fks[i].field]).id

\* C15: after a successful save of a record R, the row of R's natural key
\* holds, for every scalar field R gives, R's value after the coercion of the
\* schema (booleans as 0 or 1, a non-string args as its JSON string) and, for
\* every FK field R gives, the id of the referenced row.
C15_RoundTrip ==
    (last.op = "save" /\ last.ok) =>
        ReadsBack(db, last.schema, last.obj, SavedRow(db, last.schema, last.obj, last.id))

(***************************************************************************)
(* The rows a record names.                                                *)
(***************************************************************************)
\* the FK rules of a schema for the natural-key field nk (none for a scalar)
FkRulesOf(schema, nk) == {i \in DOMAIN schema.fks : schema.fks[i].field = nk}

\* row x of the child schema carries the natural key that the item gives
\* under the parent row (of table ptable, with id pid) in the store d
NamesRow(d, schema, item, ptable, pid, pcol, x) ==
    \A j \in DOMAIN schema.naturalKey :
        LET nk == schema.naturalKey[j]
        IN  IF nk = "_parent_id" THEN x[pcol] = pid
            ELSE IF FkRulesOf(schema, nk) # {}
            THEN LET rule == schema.fks[Min(FkRulesOf(schema, nk))]
                 IN  IF rule.column = pcol THEN x[pcol] = pid
                     ELSE IF schema.table = "expansions" /\ ptable = "expansions"
                             /\ nk = "document"
                     THEN x.document_id = RowById(d, ptable, pid).document_id
                     ELSE /\ Has(item, nk)
                          /\ resolveFk(d, rule, item[nk]).ok
                          /\ x[rule.column] = resolveFk(d, rule, item[nk]).id
            ELSE IF Has(item, nk)
            THEN x[schema.columns[nk]] = Coerced(schema, schema.columns[nk], nk, item[nk])
            ELSE nk \in DOMAIN schema.defaults /\ x[schema.columns[nk]] = schema.defaults[nk]

\* the rows <<table, id>> that the child arrays of a record name, under the
\* row (ptable, pid) of the record, at every depth
RECURSIVE NamedChildren(_, _, _, _, _)
NamedChildren(d, schemaName, obj, ptable, pid) ==
    UNION { UNION { LET child == SCHEMAS[SCHEMAS[schemaName].children[c].schema]
                        pcol  == SCHEMAS[schemaName].children[c].parentFkColumn
                        item  == expandShorthand(SCHEMAS[schemaName].children[c],
                                                 obj[SCHEMAS[schemaName].children[c].key][n]).obj
                        mine  == IF child.table \in {"story_links", "check_deps"}
                                 THEN {x \in d.tables[child.table] : x[pcol] = pid}
                                 ELSE {x \in d.tables[child.table] :
                                          NamesRow(d, child, item, ptable, pid, pcol, x)}
                    IN  {<<child.table, x.id>> : x \in mine}
                          \cup UNION {NamedChildren(d, SCHEMAS[schemaName].children[c].schema,
                                                    item, child.table, x.id) : x \in mine}
                    : n \in DOMAIN obj[SCHEMAS[schemaName].children[c].key] }
            : c \in {k \in DOMAIN SCHEMAS[schemaName].children :
                        Has(obj, SCHEMAS[schemaName].children[k].key)} }

\* the tables with a surrogate id
IdTables == TableNames \ {"metadata"}

\* C16: a successful save of a record with child arrays leaves every row in
\* place and unchanged, except the row of the record itself and the rows whose
\* natural keys the arrays give.
C16_OtherRowsKept ==
    [][(last'.op = "save" /\ last'.ok /\ last'.schema # "metadata") =>
          \A t \in IdTables : \A x \in db.tables[t] :
              (/\ <<t, x.id>> # <<SCHEMAS[last'.schema].table, last'.id>>
               /\ <<t, x.id>> \notin NamedChildren(db', last'.schema, last'.obj,
                                                   SCHEMAS[last'.schema].table, last'.id))
                  => x \in db'.tables[t]]_vars

(***************************************************************************)
(* The fields of an entity (getEntityDetail of etl.ts).                    *)
(***************************************************************************)
\* the rows as an unordered scan returns them
FieldsByScan(d, entityId) == ScanOrder(Matches(d, "fields", ("entity_id" :> entityId)))

\* SELECT name, type FROM fields WHERE entity_id = ? ORDER BY id
FieldsOf(d, entityId) == OrderById(Matches(d, "fields", ("entity_id" :> entityId)))

\* getEntityDetail(name).fields, as the list of the names
FieldNames(d, entityId) == [i \in DOMAIN FieldsOf(d, entityId) |-> FieldsOf(d, entityId)[i].name]

\* the names of `given`, in order, that are not in `known`: each once
RECURSIVE NewNames(_, _)
NewNames(known, given) ==
    IF given = <<>> THEN <<>>
    ELSE IF Head(given) \in known THEN NewNames(known, Tail(given))
    ELSE <<Head(given)>> \o NewNames(known \cup {Head(given)}, Tail(given))

\* the field names a successful command gives for the entity row e
GivenFieldNames(c, e) ==
    IF c.schema = "entity" /\ c.obj["name"] = e.name /\ Has(c.obj, "fields")
    THEN [i \in DOMAIN c.obj["fields"] |-> c.obj["fields"][i].obj["name"]]
    ELSE IF c.schema = "field" /\ Has(c.obj, "entity") /\ c.obj["entity"] = e.name
            /\ Has(c.obj, "name")
    THEN <<c.obj["name"]>>
    ELSE <<>>

\* C17: a successful save keeps the listed fields of every entity in their
\* places and lists the fields it creates after them, in the order in which
\* the record gives them: the list is in the order of first saving, and
\* saving an existing field again does not move it.
C17_CreationOrder ==
    [][(last'.op = "save" /\ last'.ok) =>
          \A e \in db'.tables["entities"] :
              FieldNames(db', e.id)
                 = FieldNames(db, e.id)
                     \o NewNames(Range(FieldNames(db, e.id)), GivenFieldNames(last', e))]_vars

\* entity A, first saved with the field x, got y in a later save of its own
\* and was then saved again with x alone: it lists x, y
C17_Witness ==
    /\ last.op = "save"
    /\ last.ok
    /\ last.schema = "entity"
    /\ Has(last.obj, "fields")
    /\ \E e \in db.tables["entities"] :
          /\ e.name = last.obj["name"]
          /\ GivenFieldNames(last, e) = << <<"x">> >>
          /\ FieldNames(db, e.id) = << <<"x">>, <<"y">> >>

(***************************************************************************)
(* Batch mode.                                                             *)
(***************************************************************************)
\* the store a line leaves when it is run as a call of its own: what the
\* call wrote if it returned, the store before it if it threw
LineAlone(d, line) == IF BatchLine(d, line).ok THEN BatchLine(d, line).db ELSE d

\* the stores before each line and after the last, the lines run in order
RECURSIVE OneAtATime(_, _)
OneAtATime(d, lines) ==
    IF lines = <<>> THEN <<d>>
    ELSE <<d>> \o OneAtATime(LineAlone(d, Head(lines)), Tail(lines))

\* the lines that return when each is run on the store the lines before it left
LinesOk(d, lines) ==
    {i \in DOMAIN lines : BatchLine(OneAtATime(d, lines)[i], lines[i]).ok}

\* C18: a batch leaves the store that its lines leave when they are run one
\* at a time in input order, a line that throws leaving the store as it was
\* before that line and the lines after it still run; the ok count is the
\* number of lines that returned, the failed count the number that threw,
\* and the two add up to the number of lines.
C18_BatchIsolation ==
    [][(last'.op = "batch") =>
          /\ db' = OneAtATime(db, last'.lines)[Len(last'.lines) + 1]
          /\ last'.okCount = Cardinality(LinesOk(db, last'.lines))
          /\ last'.failCount = Len(last'.lines) - Cardinality(LinesOk(db, last'.lines))
          /\ last'.okCount + last'.failCount = last'.total
          /\ last'.total = Len(last'.lines)]_vars

\* a batch of three lines whose second line threw after it had written rows:
\* the first and the third line are in the store, nothing of the second is
C18_Witness ==
    /\ last.op = "batch"
    /\ last.okCount = 2
    /\ last.failCount = 1
    /\ last.lines[2].schema = "entity"
    /\ last.lines[2].obj["name"] = <<"B">>
    /\ \A e \in db.tables["entities"] : e.name # <<"B">>
    /\ \E e \in db.tables["entities"] :
          e.name = <<"A">> /\ FieldNames(db, e.id) = << <<"x">>, <<"y">> >>

(***************************************************************************)
(* del repeated.                                                           *)
(***************************************************************************)
\* the call returns and leaves the store d as it is
NoOp(d, r) == r.ok /\ r.db = d

\* the record gives the whole natural key, its FK parents exist, and no row
\* has that key
KeyOfNoRow(d, c) ==
    /\ c.schema \in SchemaNames
    /\ KeyGiven(c.schema, c.obj)
    /\ ResolveFks(d, SCHEMAS[c.schema], c.obj).ok
    /\ Matches(d, SCHEMAS[c.schema].table,
               DelWhere(SCHEMAS[c.schema], c.obj,
                        ResolveFks(d, SCHEMAS[c.schema], c.obj).resolved)) = {}

\* C19: a del that succeeded, repeated at once with the same record, returns
\* without error and leaves the store unchanged; so does a del whose record
\* gives the whole natural key, with FK parents that exist, of no row.
C19_DelIdempotent ==
    /\ (last.op = "del" /\ last.ok) => NoOp(db, del(db, last.schema, last.obj))
    /\ \A c \in DelInputs(scenario) :
          KeyOfNoRow(db, c) => NoOp(db, del(db, c.schema, c.obj))

\* a method was deleted by entity and name; its entity is still there, and
\* another record names a row that does not exist under an entity that does
C19_Witness ==
    /\ last.op = "del"
    /\ last.ok
    /\ last.schema = "method"
    /\ Has(last.obj, "entity")
    /\ KeyOfNoRow(db, [schema |-> last.schema, obj |-> last.obj])
    /\ db.tables["methods"] # {}

(***************************************************************************)
(* The internal child schemas at the command line.                         *)
(***************************************************************************)
\* records of a story link and of a check dependency
InternalRecords ==
    { [type |-> <<"method">>, name |-> <<"A", ".", "m">>],
      [type |-> <<"entity">>, name |-> <<"A">>],
      [depends_on_id |-> 1],
      [checklist |-> <<"L">>, actor |-> <<"u">>, method |-> <<"A", ".", "m">>] }

\* the call throws and leaves the store d as it is
Refused(d, r) == ~r.ok /\ r.db = d

\* C20: no entry point of the command line saves or deletes a record of a
\* schema whose name begins with "_": save, delete and import refuse the
\* name as an unknown schema, a batch line of that schema fails and leaves the
\* store as it was; so every story link is the link of a story and every
\* check dependency the dependency of a check.
C20_InternalNotInvokable ==
    /\ \A s \in Underscored : \A obj \in InternalRecords :
          /\ dispatch(db, "save", s, obj) = Fail(db, "UnknownSchema")
          /\ dispatch(db, "delete", s, obj) = Fail(db, "UnknownSchema")
          /\ \A tail \in {"", "s"} :
                /\ Refused(db, import(db, << Entry(Key(s, tail), <<obj>>) >>))
                /\ import(db, << Entry(Key(s, tail), <<obj>>) >>).err = "UnknownSchema"
          /\ \A command \in {"save", "delete"} :
                Refused(db, BatchLine(db, Line(command, s, obj)))
    /\ \A l \in db.tables["story_links"] : \E st \in db.tables["stories"] : st.id = l.story_id
    /\ \A k \in db.tables["check_deps"] : \E c \in db.tables["checks"] : c.id = k.check_id

\* a batch whose first line saved a link to a method that existed, in a store
\* with a story: that line and the delete after it failed, the third line
\* deleted the method
C20_Witness ==
    /\ last.op = "batch"
    /\ last.lines[1].command = "save"
    /\ last.lines[1].schema = "_story_link"
    /\ last.lines[2].command = "delete"
    /\ last.lines[2].schema = "_story_link"
    /\ last.okCount = 1
    /\ last.failCount = 2
    /\ db.tables["stories"] # {}
    /\ \A l \in db.tables["story_links"] : l.story_id # NULLI

(***************************************************************************)
(* doctor (site.ts): report and remove orphaned references.                *)
(***************************************************************************)
Ids(d, t) == {x.id : x \in d.tables[t]}

\* SELECT id FROM story_links WHERE target_type = '<type>'
\*   AND target_id NOT IN (SELECT id FROM <table>)
BadLinks(d, type, table) ==
    {l.id : l \in {x \in d.tables["story_links"] :
                      x.target_type = <<type>> /\ x.target_id \notin Ids(d, table)}}

OrphanedLinks(d) ==
    BadLinks(d, "method", "methods") \cup BadLinks(d, "entity", "entities")
      \cup BadLinks(d, "document", "documents")
      \cup BadLinks(d, "notification", "notifications")

\* SELECT id FROM checks WHERE method_id IS NOT NULL
\*   AND method_id NOT IN (SELECT id FROM methods)
BadChecks(d) ==
    {c.id : c \in {x \in d.tables["checks"] :
                      x.method_id # NULLI /\ x.method_id \notin Ids(d, "methods")}}

\* SELECT id FROM check_deps WHERE check_id NOT IN (SELECT id FROM checks)
\*   OR depends_on_id NOT IN (SELECT id FROM checks)
BadDeps(d) ==
    {k.id : k \in {x \in d.tables["check_deps"] :
                      x.check_id \notin Ids(d, "checks")
                        \/ x.depends_on_id \notin Ids(d, "checks")}}

\* a fix that removes the orphaned story links only
FixLinksOnly(d, links, checks, deps) == DeleteRows(d, "story_links", links)

\* the three DELETE loops of the fix branch, over the ids found before them
DoctorFix(d, links, checks, deps) ==
    DeleteRows(DeleteRows(DeleteRows(d, "story_links", links), "checks", checks),
               "check_deps", deps)

DoctorFound(d, fix, links, checks, deps) ==
    [total |-> Cardinality(links) + Cardinality(checks) + Cardinality(deps),
     db |-> IF fix THEN DoctorFix(d, links, checks, deps) ELSE d]

\* doctor(db, fix): [total, db]
doctor(d, fix) == DoctorFound(d, fix, OrphanedLinks(d), BadChecks(d), BadDeps(d))

\* Stores for doctor: any choice of rows from a pool in which references may
\* name rows that are not there, as a connection that did not enforce the
\* foreign keys leaves them.
PoolLinks ==
    { [id |-> 1, story_id |-> 1, target_type |-> <<"method">>, target_id |-> 1],
      [id |-> 2, story_id |-> 1, target_type |-> <<"entity">>, target_id |-> 1],
      [id |-> 3, story_id |-> 1, target_type |-> <<"document">>, target_id |-> 1],
      [id |-> 4, story_id |-> 1, target_type |-> <<"notification">>, target_id |-> 1] }

PoolChecks ==
    { [id |-> 1, checklist_id |-> 1, actor |-> <<"u">>, method_id |-> 1, action |-> <<"can">>,
       description |-> <<>>, confirmed |-> 0, seq |-> 1],
      [id |-> 2, checklist_id |-> 1, actor |-> <<"v">>, method_id |-> NULLI,
       action |-> <<"can">>, description |-> <<>>, confirmed |-> 0, seq |-> 2] }

PoolDeps ==
    { [id |-> 1, check_id |-> 1, depends_on_id |-> 2],
      [id |-> 2, check_id |-> 2, depends_on_id |-> 1] }

PoolEntities == { [id |-> 1, name |-> <<"A">>] }

PoolMethods ==
    { [id |-> 1, entity_id |-> 1, name |-> <<"m">>, args |-> <<"[]">>,
       return_type |-> <<"boolean">>, auth_required |-> 1] }

PoolStore(entities, methods, links, checks, deps) ==
    [tables |-> [EmptyDb.tables EXCEPT
                    !["entities"] = entities,
                    !["methods"] = methods,
                    !["stories"] = {[id |-> 1, actor |-> <<"u">>, action |-> <<"do">>,
                                     description |-> <<>>]},
                    !["story_links"] = links,
                    !["checklists"] = {[id |-> 1, name |-> <<"L">>, description |-> <<>>]},
                    !["checks"] = checks,
                    !["check_deps"] = deps],
     seq |-> [EmptyDb.seq EXCEPT
                    !["entities"] = 1, !["methods"] = 1, !["stories"] = 1,
                    !["story_links"] = 4, !["checklists"] = 1, !["checks"] = 2,
                    !["check_deps"] = 2]]

PoolStores ==
    { PoolStore(e, m, l, c, k) :
        e \in SUBSET PoolEntities, m \in SUBSET PoolMethods, l \in SUBSET PoolLinks,
        c \in SUBSET PoolChecks, k \in SUBSET PoolDeps }

DoctorInit ==
    /\ db \in PoolStores
    /\ last = [op |-> "none", schema |-> "", obj |-> Empty, ok |-> TRUE, id |-> 0, err |-> "none"]
    /\ scanOrder = "asc"
    /\ scenario = "doctor"
    /\ site = SiteLoaded

DoctorReturned(fix, r) ==
    /\ db' = r.db
    /\ last' = [op |-> "doctor", schema |-> "", obj |-> Empty, ok |-> TRUE, id |-> 0,
                err |-> "none", fix |-> fix, total |-> r.total]
    /\ UNCHANGED <<scanOrder, scenario, site>>

\* bun model doctor
DoctorReport == DoctorReturned(FALSE, doctor(db, FALSE))

\* bun model doctor --fix
DoctorRepair == DoctorReturned(TRUE, doctor(db, TRUE))

DoctorNext == DoctorReport \/ DoctorRepair

DoctorSpec == DoctorInit /\ [][DoctorNext]_vars

\* the table a story link of the given target_type points into
TargetTable(type) ==
    IF type = <<"entity">> THEN "entities"
    ELSE IF type = <<"document">> THEN "documents"
    ELSE IF type = <<"method">> THEN "methods"
    ELSE "notifications"

LinkHasTarget(d, l) == \E x \in d.tables[TargetTable(l.target_type)] : x.id = l.target_id

NoOrphans(d) ==
    /\ \A l \in d.tables["story_links"] : LinkHasTarget(d, l)
    /\ \A c \in d.tables["checks"] :
          c.method_id # NULLI => \E m \in d.tables["methods"] : m.id = c.method_id
    /\ \A k \in d.tables["check_deps"] :
          /\ \E c \in d.tables["checks"] : c.id = k.check_id
          /\ \E c \in d.tables["checks"] : c.id = k.depends_on_id

UnknownNames == {"bogus", "entities", "constructor", "toString"}

\* C22: save and del with a schema name that is not in the registry fail
\* with the unknown-schema error and leave the store unchanged.
C22_UnknownSchema ==
    \A name \in UnknownNames \ SchemaNames : \A c \in CliSaves :
        /\ save(db, name, c.obj) = Fail(db, "UnknownSchema")
        /\ del(db, name, c.obj) = Fail(db, "UnknownSchema")

(***************************************************************************)
(* Children and their parent.                                              *)
(***************************************************************************)
\* the child tables of a schema, each with the column that holds the parent
ChildTables(schemaName) ==
    {<<SCHEMAS[SCHEMAS[schemaName].children[i].schema].table,
       SCHEMAS[schemaName].children[i].parentFkColumn>> :
        i \in DOMAIN SCHEMAS[schemaName].children}

\* C23: a successful save of a record does not modify a row of one of its
\* child tables that belongs to another parent: such a row is in the store
\* after the save as it was before (the saved row itself, where the child
\* table is the table of the record, is not such a row).
C23_OtherParentsChildrenKept ==
    [][(last'.op = "save" /\ last'.ok /\ last'.schema \in SchemaNames \ {"metadata"}) =>
          \A tc \in ChildTables(last'.schema) :
              \A x \in db.tables[tc[1]] :
                  (x[tc[2]] # last'.id /\ <<tc[1], x.id>> # <<SCHEMAS[last'.schema].table, last'.id>>)
                      => x \in db'.tables[tc[1]]]_vars

(***************************************************************************)
(* The ordinal of a check.                                                 *)
(***************************************************************************)
\* C24: a successful save of a check whose record has no seq, when it finds
\* the check it names, leaves the seq of that check as it was.
C24_SeqKept ==
    [][(last'.op = "save" /\ last'.ok /\ last'.schema = "check" /\ ~Has(last'.obj, "seq")) =>
          \A x \in db.tables["checks"] :
              x.id = last'.id => \E y \in db'.tables["checks"] : y.id = x.id /\ y.seq = x.seq]_vars

(***************************************************************************)
(* Story links and their targets.                                          *)
(***************************************************************************)
\* C25: in every store that save and del calls leave, each story link names
\* a row that exists in the table of its target type.
C25_LinksHaveTargets == \A l \in db.tables["story_links"] : LinkHasTarget(db, l)

(***************************************************************************)
(* The tree of expansions.                                                 *)
(***************************************************************************)
\* the ids met by following parent_expansion_id from id, at most fuel rows
RECURSIVE UpFrom(_, _, _)
UpFrom(d, id, fuel) ==
    IF fuel = 0 \/ ~\E p \in d.tables["expansions"] : p.id = id THEN {}
    ELSE {id} \cup UpFrom(d, RowById(d, "expansions", id).parent_expansion_id, fuel - 1)

\* C26: no expansion is its own ancestor: following parent_expansion_id from
\* an expansion never comes back to it.
C26_ExpansionsAcyclic ==
    \A x \in db.tables["expansions"] :
        x.id \notin UpFrom(db, x.parent_expansion_id, Cardinality(db.tables["expansions"]))

\* C27: no expansion has a parent expansion whose shallow flag is 1.
C27_NothingUnderShallow ==
    \A x \in db.tables["expansions"] :
        \A p \in db.tables["expansions"] : p.id = x.parent_expansion_id => p.shallow # 1

(***************************************************************************)
(* import.                                                                 *)
(***************************************************************************)
\* the number of items of a file
RECURSIVE ItemCount(_)
ItemCount(data) == IF data = <<>> THEN 0 ELSE Len(Head(data).items) + ItemCount(Tail(data))

\* C28: an import in which a key or an item fails leaves the store as it was
\* before the import, the items of the file saved before the failure
\* included; an import that succeeds has saved every item of the file.
C28_ImportAllOrNothing ==
    [][(last'.op = "import") =>
          /\ ~last'.ok => db' = db
          /\ last'.ok => last'.imported = ItemCount(last'.data)]_vars

\* an import failed after its first item had been saved: that item, saved
\* alone, returns and changes the store
C28_Witness ==
    /\ last.op = "import"
    /\ ~last.ok
    /\ last.err \in {"UnknownSchema", "NotFound"}
    /\ save(db, Singular(last.data[1].key), last.data[1].items[1]).ok
    /\ save(db, Singular(last.data[1].key), last.data[1].items[1]).db # db

(***************************************************************************)
(* The dependencies of checks.                                             *)
(***************************************************************************)
\* the checks reached from the checks `from` along depends_on_id, in at most
\* fuel steps
RECURSIVE DependsOn(_, _, _)
DependsOn(d, from, fuel) ==
    IF fuel = 0 THEN from
    ELSE DependsOn(d, from \cup {k.depends_on_id : k \in {x \in d.tables["check_deps"] : x.check_id \in from}},
                   fuel - 1)

\* C29: no check depends on itself, directly or through other checks, and
\* every dependency names a check that exists.
C29_DepsAcyclic ==
    /\ \A c \in db.tables["checks"] :
          c.id \notin DependsOn(db, {k.depends_on_id : k \in {x \in db.tables["check_deps"] : x.check_id = c.id}},
                                Cardinality(db.tables["checks"]))
    /\ \A k \in db.tables["check_deps"] : \E c \in db.tables["checks"] : c.id = k.depends_on_id

(***************************************************************************)
(* The diagram cache of the site server (site.ts).                         *)
(* getDiagrams is an async function: it runs until an await, and other     *)
(* requests are served while it waits. Each step below is one stretch of   *)
(* code between two awaits.                                                *)
(***************************************************************************)

\* no more than MaxWrites changes of the database file and MaxReloads
\* reload requests are followed
MaxWrites == 2

MaxReloads == 2

\* one field of one call replaced
SetCall(s, c, call) == [s EXCEPT !.calls[c] = call]

\* broadcastReload: cachedDiagrams = null. The "data: reload" events it
\* enqueues to the SSE clients carry no state that getDiagrams reads.
broadcastReload(s) == [s EXCEPT !.cachedDiagrams = NoDiagrams, !.reloads = @ + 1]

\* the test `cachedDiagrams && mtime === cachedMtime`
CacheHit(s, mtime) == s.cachedDiagrams # NoDiagrams /\ mtime = s.cachedMtime

\* etl(): after `await file.exists()`, the models are read from the database
\* in one synchronous stretch (openDb, generate*, db.close); the rendering is
\* awaited afterwards. The diagrams are a function of the contents read.
etl(s) == [version |-> s.version, readAt |-> s.reloads]

\* getDiagrams, from the call to `await file.stat()`
getDiagramsCalled(s, c) == SetCall(s, c, [IdleCall EXCEPT !.pc = "stat", !.startedAt = s.reloads])

\* getDiagrams, from the mtime read up to the cached return or to the first
\* await inside etl()
getDiagramsStat(s, c) == IF CacheHit(s, s.mtimeMs) THEN SetCall(s, c, [s.calls[c] EXCEPT !.pc = "done", !.mtime = s.mtimeMs, !.result = s.cachedDiagrams]) ELSE SetCall(s, c, [s.calls[c] EXCEPT !.pc = "etl", !.mtime = s.mtimeMs])

\* etl(), the database read, up to `await renderSvg(...)`
getDiagramsRead(s, c) == SetCall(s, c, [s.calls[c] EXCEPT !.pc = "render", !.read = etl(s)])

\* getDiagrams, after `await etl()`: cachedDiagrams and cachedMtime are
\* assigned from what this call read and the mtime it saw, and returned
getDiagramsRendered(s, c) == [SetCall(s, c, [s.calls[c] EXCEPT !.pc = "done", !.result = s.calls[c].read]) EXCEPT !.cachedDiagrams = s.calls[c].read, !.cachedMtime = s.calls[c].mtime]

SiteInit ==
    /\ db = EmptyDb
    /\ last = [op |-> "none", schema |-> "", obj |-> Empty, ok |-> TRUE, id |-> 0, err |-> "none"]
    /\ scanOrder = "asc"
    /\ scenario = "site"
    /\ site = SiteLoaded

\* a CLI command changes the database file; the file's mtime moves on, or
\* stays what it was (a write within the timestamp's resolution)
SiteWrite ==
    /\ site.version < MaxWrites
    /\ \E touched \in BOOLEAN : site' = [site EXCEPT !.version = @ + 1, !.mtimeMs = IF touched THEN @ + 1 ELSE @]
    /\ UNCHANGED <<db, last, scanOrder, scenario>>

\* POST /api/internal/reload, sent by the CLI's triggerReload
Reload ==
    /\ site.reloads < MaxReloads
    /\ site' = broadcastReload(site)
    /\ UNCHANGED <<db, last, scanOrder, scenario>>

\* GET /diagram/*.svg: a getDiagrams call starts
DiagramRequested ==
    /\ \E c \in Calls : site.calls[c].pc \in {"idle", "done"} /\ site' = getDiagramsCalled(site, c)
    /\ UNCHANGED <<db, last, scanOrder, scenario>>

DiagramStat ==
    /\ \E c \in Calls : site.calls[c].pc = "stat" /\ site' = getDiagramsStat(site, c)
    /\ UNCHANGED <<db, last, scanOrder, scenario>>

DiagramRead ==
    /\ \E c \in Calls : site.calls[c].pc = "etl" /\ site' = getDiagramsRead(site, c)
    /\ UNCHANGED <<db, last, scanOrder, scenario>>

DiagramRendered ==
    /\ \E c \in Calls : site.calls[c].pc = "render" /\ site' = getDiagramsRendered(site, c)
    /\ UNCHANGED <<db, last, scanOrder, scenario>>

SiteNext == SiteWrite \/ Reload \/ DiagramRequested \/ DiagramStat \/ DiagramRead \/ DiagramRendered

SiteSpec == SiteInit /\ [][SiteNext]_vars

\* C30: a getDiagrams call that started after a broadcastReload returns
\* diagrams computed from a database read made no earlier than that
\* broadcast, whatever other calls were in flight and whatever the mtime.
C30_FreshAfterReload == \A c \in Calls : (site.calls[c].pc = "done" /\ site.calls[c].startedAt >= 1) => site.calls[c].result.readAt >= site.calls[c].startedAt

====
